---------------------------- MODULE Spec2Model ----------------------------
(***************************************************************************)
(* Matching-and-scoring engine of the accessibility benchmark              *)
(* (bench/lib/matching.ts, bench/score.ts, bench/run.ts) and the MCP       *)
(* server's audit store and tools (src/lib, src/tools).                    *)
(* Strings are TLA+ strings; a character is a string of length 1.          *)
(* A JavaScript number is the exact rational <<n, d>> in lowest terms with  *)
(* d > 0, or <<1, 0>> (Infinity), <<-1, 0>> (-Infinity), <<0, 0>> (NaN);    *)
(* where rounding matters the binary64 operators (dadd, ddiv, ...) are     *)
(* used.  Counts are integers.  Math.sqrt(q) is [radicand |-> q].          *)
(***************************************************************************)
EXTENDS Integers, Sequences, FiniteSets, TLC

(***************************************************************************)
(* String primitives (String.prototype.* and the RegExp fragments used).   *)
(***************************************************************************)
\* s.substring(i - 1, j): the characters at positions i..j that exist
Sub(s, i, j) ==
  IF i > j \/ i > Len(s) \/ j < 1 THEN ""
  ELSE SubSeq(s, IF i < 1 THEN 1 ELSE i, IF j > Len(s) THEN Len(s) ELSE j)

\* s.charAt(i - 1)
CharAt(s, i) == Sub(s, i, i)

LowerOf ==
  [c \in {"A","B","C","D","E","F","G","H","I","J","K","L","M",
          "N","O","P","Q","R","S","T","U","V","W","X","Y","Z"} |->
     CASE c = "A" -> "a" [] c = "B" -> "b" [] c = "C" -> "c" [] c = "D" -> "d"
       [] c = "E" -> "e" [] c = "F" -> "f" [] c = "G" -> "g" [] c = "H" -> "h"
       [] c = "I" -> "i" [] c = "J" -> "j" [] c = "K" -> "k" [] c = "L" -> "l"
       [] c = "M" -> "m" [] c = "N" -> "n" [] c = "O" -> "o" [] c = "P" -> "p"
       [] c = "Q" -> "q" [] c = "R" -> "r" [] c = "S" -> "s" [] c = "T" -> "t"
       [] c = "U" -> "u" [] c = "V" -> "v" [] c = "W" -> "w" [] c = "X" -> "x"
       [] c = "Y" -> "y" [] c = "Z" -> "z"]

LowerLetters ==
  {"a","b","c","d","e","f","g","h","i","j","k","l","m",
   "n","o","p","q","r","s","t","u","v","w","x","y","z"}

Digits == {"0","1","2","3","4","5","6","7","8","9"}

WhiteSpace == {" ", "\t", "\n", "\r"}

LineTerminators == {"\n", "\r"}

\* [A-Za-z0-9_], the class \w that \b is defined by
IsWordChar(c) == c \in LowerLetters \cup DOMAIN LowerOf \cup Digits \cup {"_"}

RECURSIVE toLowerCase(_)
toLowerCase(s) ==
  IF s = "" THEN ""
  ELSE (IF Head(s) \in DOMAIN LowerOf THEN LowerOf[Head(s)] ELSE Head(s))
         \o toLowerCase(Tail(s))

RECURSIVE trimStart(_)
trimStart(s) ==
  IF s # "" /\ Head(s) \in WhiteSpace THEN trimStart(Tail(s)) ELSE s

RECURSIVE trimEnd(_)
trimEnd(s) ==
  IF s # "" /\ CharAt(s, Len(s)) \in WhiteSpace
  THEN trimEnd(Sub(s, 1, Len(s) - 1)) ELSE s

trim(s) == trimEnd(trimStart(s))

\* s.includes(t)
includes(s, t) ==
  \E i \in 1..(Len(s) - Len(t) + 1) : Sub(s, i, i + Len(t) - 1) = t

\* s.split("=")[0]
RECURSIVE splitEq0(_)
splitEq0(s) ==
  IF s = "" \/ Head(s) = "=" THEN "" ELSE Head(s) \o splitEq0(Tail(s))


(***************************************************************************)
(* elementMatchScore (matching.ts 159-201)                                 *)
(***************************************************************************)
\* length of the longest prefix of s matching [a-z0-9]*
RECURSIVE AlnumRun(_)
AlnumRun(s) ==
  IF s # "" /\ Head(s) \in LowerLetters \cup Digits
  THEN 1 + AlnumRun(Tail(s)) ELSE 0

\* s.match(/^([a-z][a-z0-9]*)/)?.[1]; "" stands for undefined (a match is
\* never empty, and the code only tests the capture for truthiness)
tagName(s) ==
  IF s # "" /\ Head(s) \in LowerLetters
  THEN Sub(s, 1, 1 + AlnumRun(Tail(s))) ELSE ""

\* index of the first "]" at or after position i, 0 when there is none
RECURSIVE FirstClose(_, _)
FirstClose(s, i) ==
  IF i > Len(s) THEN 0
  ELSE IF CharAt(s, i) = "]" THEN i ELSE FirstClose(s, i + 1)

\* [...s.matchAll(/\[([^\]]+)\]/g)].map(m => m[1]), scanning from position i
RECURSIVE attrTokensFrom(_, _)
attrTokensFrom(s, i) ==
  IF i > Len(s) THEN <<>>
  ELSE IF CharAt(s, i) = "[" /\ FirstClose(s, i + 1) > i + 1
       THEN <<Sub(s, i + 1, FirstClose(s, i + 1) - 1)>>
              \o attrTokensFrom(s, FirstClose(s, i + 1) + 1)
       ELSE attrTokensFrom(s, i + 1)

attrTokens(s) == attrTokensFrom(s, 1)

\* length of the longest run of digits starting at position i
RECURSIVE DigitRun(_, _)
DigitRun(s, i) ==
  IF i <= Len(s) /\ CharAt(s, i) \in Digits THEN 1 + DigitRun(s, i + 1) ELSE 0

NthPrefix == "nth-of-type("

\* does /nth-of-type\((\d+)\)/ match at position i
NthAt(s, i) ==
  /\ Sub(s, i, i + Len(NthPrefix) - 1) = NthPrefix
  /\ DigitRun(s, i + Len(NthPrefix)) > 0
  /\ CharAt(s, i + Len(NthPrefix) + DigitRun(s, i + Len(NthPrefix))) = ")"

\* s.match(/nth-of-type\((\d+)\)/)?.[1]; "" stands for undefined
nthIndex(s) ==
  IF \E i \in 1..Len(s) : NthAt(s, i)
  THEN LET i == CHOOSE j \in 1..Len(s) :
                  NthAt(s, j) /\ \A h \in 1..(j - 1) : ~NthAt(s, h)
       IN Sub(s, i + Len(NthPrefix),
                 i + Len(NthPrefix) + DigitRun(s, i + Len(NthPrefix)) - 1)
  ELSE ""

\* the contribution of one pair of attribute tokens (lines 190-191)
attrPairScore(ca, sa) ==
  IF ca = sa THEN 3
  ELSE IF splitEq0(ca) = splitEq0(sa) THEN 1 ELSE 0

\* sum of f[<<i, j>>] over i in 1..m, j in 1..n, given as a function of pairs
SumOver(f, m, n) ==
  IF m = 0 \/ n = 0 THEN 0
  ELSE LET RECURSIVE Row(_, _)
           Row(i, j) == IF j = 0 THEN 0 ELSE f[<<i, j>>] + Row(i, j - 1)
           RECURSIVE Rows(_)
           Rows(i) == IF i = 0 THEN 0 ELSE Row(i, n) + Rows(i - 1)
       IN Rows(m)

sharedAttrScore(ceAttrs, spAttrs) ==
  SumOver([p \in (1..Len(ceAttrs)) \X (1..Len(spAttrs)) |->
             attrPairScore(ceAttrs[p[1]], spAttrs[p[2]])],
          Len(ceAttrs), Len(spAttrs))

\* elementMatchScore with the substring test in one direction only
elementMatchScore_OneDirection(claudeElement, selectorPattern) ==
  IF claudeElement = "" \/ selectorPattern = "" THEN 0
  ELSE
    LET ce == trim(toLowerCase(claudeElement))
        sp == trim(toLowerCase(selectorPattern))
        ceTag == tagName(ce)
        spTag == tagName(sp)
        ceNth == nthIndex(ce)
        spNth == nthIndex(sp)
    IN IF ce = sp THEN 10
       ELSE IF includes(ce, sp) THEN 7
       ELSE (IF ceTag # "" /\ spTag # "" /\ ceTag = spTag THEN 3 ELSE 0)
            + sharedAttrScore(attrTokens(ce), attrTokens(sp))
            + (IF ceNth # "" /\ spNth # "" /\ ceNth = spNth THEN 2 ELSE 0)

elementMatchScore(claudeElement, selectorPattern) ==
  IF claudeElement = "" \/ selectorPattern = "" THEN 0
  ELSE
    LET ce == trim(toLowerCase(claudeElement))
        sp == trim(toLowerCase(selectorPattern))
        ceTag == tagName(ce)
        spTag == tagName(sp)
        ceNth == nthIndex(ce)
        spNth == nthIndex(sp)
    IN IF ce = sp THEN 10
       ELSE IF includes(ce, sp) \/ includes(sp, ce) THEN 7
       ELSE (IF ceTag # "" /\ spTag # "" /\ ceTag = spTag THEN 3 ELSE 0)
            + sharedAttrScore(attrTokens(ce), attrTokens(sp))
            + (IF ceNth # "" /\ spNth # "" /\ ceNth = spNth THEN 2 ELSE 0)


(***************************************************************************)
(* Keyword patterns (matching.ts 57-135).  A pattern is the sequence of    *)
(* its pieces separated by ".*"; a piece is an alternation of literals     *)
(* with an optional \b before and after.  "." inside a literal is the      *)
(* regular expression's wildcard.  All patterns carry the i flag.          *)
(***************************************************************************)
B(alts) == [pre |-> TRUE, alts |-> alts, post |-> TRUE]

BL(alts) == [pre |-> TRUE, alts |-> alts, post |-> FALSE]

LB(alts) == [pre |-> FALSE, alts |-> alts, post |-> TRUE]

L(alts) == [pre |-> FALSE, alts |-> alts, post |-> FALSE]

\* \b at the gap before position p of text
BoundaryAt(text, p) ==
  (p > 1 /\ IsWordChar(CharAt(text, p - 1)))
    # (p <= Len(text) /\ IsWordChar(CharAt(text, p)))

LitAt(text, lit, p) ==
  /\ p + Len(lit) - 1 <= Len(text)
  /\ \A k \in 1..Len(lit) :
       IF CharAt(lit, k) = "."
       THEN CharAt(text, p + k - 1) \notin LineTerminators
       ELSE CharAt(text, p + k - 1) = CharAt(lit, k)

PieceAt(text, piece, lit, p) ==
  /\ LitAt(text, lit, p)
  /\ piece.pre => BoundaryAt(text, p)
  /\ piece.post => BoundaryAt(text, p + Len(lit))

\* "." does not match a line terminator
NoLineBreak(text, from, to) ==
  \A q \in from..to : CharAt(text, q) \notin LineTerminators

RECURSIVE MatchRest(_, _, _, _)
MatchRest(text, pieces, k, from) ==
  \/ k > Len(pieces)
  \/ \E p \in from..Len(text), lit \in pieces[k].alts :
       /\ PieceAt(text, pieces[k], lit, p)
       /\ NoLineBreak(text, from, p - 1)
       /\ MatchRest(text, pieces, k + 1, p + Len(lit))

\* pattern.test(text) for an unanchored pattern with the i flag
patternTest(pieces, text) ==
  LET t == toLowerCase(text)
  IN \E p \in 1..Len(t), lit \in pieces[1].alts :
       /\ PieceAt(t, pieces[1], lit, p)
       /\ MatchRest(t, pieces, 2, p + Len(lit))

KW(pieces, ruleId) == [pattern |-> pieces, ruleId |-> ruleId]

KEYWORD_PATTERNS == <<
  KW(<<B({"alt"}), B({"missing","attribute","text"})>>, "text-alternatives/img-alt"),
  KW(<<B({"img"}), B({"missing","no"}), B({"alt"})>>, "text-alternatives/img-alt"),
  KW(<<B({"image"}), B({"missing","no"}), B({"alt"})>>, "text-alternatives/img-alt"),
  KW(<<B({"alt"}), B({"suspicious","decorative","placeholder","redundant","filename"})>>,
     "text-alternatives/image-alt-words"),
  KW(<<B({"image"}), B({"alt"}), B({"word","text"})>>, "text-alternatives/image-alt-words"),
  KW(<<BL({"input"}), L({"type"}), LB({"image"}), B({"alt"})>>,
     "text-alternatives/input-image-alt"),
  KW(<<BL({"role"}), LB({"img"}), B({"alt","label","name"})>>, "text-alternatives/role-img-alt"),
  KW(<<B({"svg"}), B({"alt","label","name","title"})>>, "text-alternatives/svg-img-alt"),
  KW(<<B({"button"}), B({"name","label","text"})>>, "labels-and-names/button-name"),
  KW(<<B({"form","input","select","textarea"}), B({"label"})>>, "labels-and-names/form-label"),
  KW(<<B({"label"}), B({"form","input","select","textarea"})>>, "labels-and-names/form-label"),
  KW(<<BL({"input"}), LB({"button"}), B({"name"})>>, "labels-and-names/input-button-name"),
  KW(<<B({"iframe","frame"}), B({"title"})>>, "labels-and-names/frame-title"),
  KW(<<B({"dialog"}), B({"name","label"})>>, "labels-and-names/aria-dialog-name"),
  KW(<<B({"alertdialog"}), B({"name","label"})>>, "labels-and-names/aria-dialog-name"),
  KW(<<B({"heading"}), B({"order","hierarchy","level","skip"})>>, "navigable/heading-order"),
  KW(<<B({"empty"}), B({"heading"})>>, "navigable/empty-heading"),
  KW(<<B({"heading"}), B({"empty"})>>, "navigable/empty-heading"),
  KW(<<B({"page","document"}), B({"heading"}), B({"one"})>>, "navigable/page-has-heading-one"),
  KW(<<B({"h1"}), B({"missing"})>>, "navigable/page-has-heading-one"),
  KW(<<B({"missing"}), B({"h1"})>>, "navigable/page-has-heading-one"),
  KW(<<B({"link"}), B({"name","text","accessible"})>>, "navigable/link-name"),
  KW(<<B({"document"}), B({"title"})>>, "navigable/document-title"),
  KW(<<B({"title"}), B({"missing","element"})>>, "navigable/document-title"),
  KW(<<B({"bypass"}), BL({"block"})>>, "navigable/bypass"),
  KW(<<B({"skip"}), B({"link","nav","content"})>>, "navigable/bypass"),
  KW(<<B({"lang"}), B({"attribute","missing"})>>, "readable/html-has-lang"),
  KW(<<B({"language"}), B({"missing","attribute","html"})>>, "readable/html-has-lang"),
  KW(<<B({"invalid","unknown"}), B({"role"})>>, "aria/aria-roles"),
  KW(<<B({"role"}), B({"invalid","unknown","not allowed"})>>, "aria/aria-roles"),
  KW(<<B({"aria"}), B({"attribute","value"}), B({"invalid"})>>, "aria/aria-valid-attr-value"),
  KW(<<B({"invalid"}), B({"aria"}), B({"attribute","value"})>>, "aria/aria-valid-attr-value"),
  KW(<<B({"role"}), B({"not"}), B({"allowed"})>>, "aria/aria-allowed-role"),
  KW(<<B({"allowed"}), B({"role"})>>, "aria/aria-allowed-role"),
  KW(<<B({"aria-hidden"}), BL({"focus"})>>, "aria/aria-hidden-focus"),
  KW(<<B({"focus"}), B({"aria-hidden"})>>, "aria/aria-hidden-focus"),
  KW(<<B({"presentation"}), B({"role","conflict"})>>, "aria/presentation-role-conflict"),
  KW(<<B({"presentational"}), B({"children"}), BL({"focus"})>>,
     "aria/presentational-children-focusable"),
  KW(<<B({"main","landmark"}), B({"missing","region"})>>, "landmarks/landmark-main"),
  KW(<<B({"banner"}), B({"top.level","nested"})>>, "landmarks/banner-is-top-level"),
  KW(<<B({"contentinfo"}), B({"top.level","nested"})>>, "landmarks/contentinfo-is-top-level"),
  KW(<<B({"complementary"}), B({"top.level","nested"})>>,
     "landmarks/complementary-is-top-level"),
  KW(<<B({"region"}), B({"landmark","outside"})>>, "landmarks/region"),
  KW(<<B({"content"}), B({"outside"}), B({"landmark"})>>, "landmarks/region"),
  KW(<<B({"list"}), B({"children"})>>, "adaptable/list-children"),
  KW(<<B({"list"}), B({"item","li"}), B({"parent"})>>, "adaptable/listitem-parent"),
  KW(<<B({"definition"}), B({"list"})>>, "adaptable/definition-list"),
  KW(<<B({"scope"}), B({"attribute","invalid"})>>, "adaptable/scope-attr-valid"),
  KW(<<B({"empty"}), B({"table"}), B({"header"})>>, "adaptable/empty-table-header"),
  KW(<<B({"table"}), B({"header"}), B({"empty"})>>, "adaptable/empty-table-header"),
  KW(<<B({"meta"}), B({"viewport"})>>, "distinguishable/meta-viewport"),
  KW(<<B({"viewport"}), B({"scal","zoom"})>>, "distinguishable/meta-viewport"),
  KW(<<BL({"user.scal"})>>, "distinguishable/meta-viewport"),
  KW(<<B({"tabindex"})>>, "keyboard-accessible/tabindex"),
  KW(<<B({"tab"}), B({"order"}), B({"positive"})>>, "keyboard-accessible/tabindex"),
  KW(<<B({"blink"})>>, "enough-time/blink"),
  KW(<<B({"marquee"})>>, "enough-time/marquee")
>>

(***************************************************************************)
(* Criterion table (matching.ts 3-55)                                      *)
(***************************************************************************)
WCAG_TO_RULES ==
  [c \in {"1.1.1","1.3.1","1.4.4","1.4.10","2.1.1","2.2.2","2.4.1","2.4.2",
          "2.4.4","2.4.6","3.1.1","4.1.2","4.1.1","4.1.3","1.3.6"} |->
    CASE c = "1.1.1" -> <<"text-alternatives/img-alt",
                          "text-alternatives/image-alt-words",
                          "text-alternatives/input-image-alt",
                          "text-alternatives/role-img-alt",
                          "text-alternatives/svg-img-alt">>
      [] c = "1.3.1" -> <<"adaptable/list-children",
                          "adaptable/listitem-parent",
                          "adaptable/definition-list",
                          "adaptable/scope-attr-valid",
                          "adaptable/empty-table-header">>
      [] c = "1.4.4" -> <<"distinguishable/meta-viewport">>
      [] c = "1.4.10" -> <<"distinguishable/meta-viewport">>
      [] c = "2.1.1" -> <<"keyboard-accessible/tabindex">>
      [] c = "2.2.2" -> <<"enough-time/blink", "enough-time/marquee">>
      [] c = "2.4.1" -> <<"navigable/bypass", "landmarks/region">>
      [] c = "2.4.2" -> <<"navigable/document-title">>
      [] c = "2.4.4" -> <<"navigable/link-name">>
      [] c = "2.4.6" -> <<"navigable/heading-order",
                          "navigable/empty-heading",
                          "navigable/page-has-heading-one">>
      [] c = "3.1.1" -> <<"readable/html-has-lang">>
      [] c = "4.1.2" -> <<"labels-and-names/button-name",
                          "labels-and-names/form-label",
                          "labels-and-names/input-button-name",
                          "labels-and-names/frame-title",
                          "labels-and-names/aria-dialog-name">>
      [] c = "4.1.1" -> <<"aria/aria-roles",
                          "aria/aria-valid-attr-value",
                          "aria/aria-allowed-role">>
      [] c = "4.1.3" -> <<"aria/aria-hidden-focus",
                          "aria/presentation-role-conflict",
                          "aria/presentational-children-focusable">>
      [] c = "1.3.6" -> <<"landmarks/landmark-main",
                          "landmarks/banner-is-top-level",
                          "landmarks/contentinfo-is-top-level",
                          "landmarks/complementary-is-top-level">>]

(***************************************************************************)
(* getCandidateRuleIds (matching.ts 137-157)                               *)
(***************************************************************************)
\* s.replace(/^sc\s*/i, "")
stripScPrefix(s) ==
  IF Len(s) >= 2 /\ toLowerCase(Sub(s, 1, 2)) = "sc"
  THEN trimStart(Sub(s, 3, Len(s))) ELSE s

Range(seq) == {seq[i] : i \in 1..Len(seq)}

\* Set.prototype.add on a Set kept in insertion order
setAdd(candidates, r) ==
  IF r \in Range(candidates) THEN candidates ELSE Append(candidates, r)

RECURSIVE addAll(_, _)
addAll(candidates, rules) ==
  IF rules = <<>> THEN candidates
  ELSE addAll(setAdd(candidates, Head(rules)), Tail(rules))

\* the entries of KEYWORD_PATTERNS from the i-th on whose pattern matches
matchingPatterns(issue, i) ==
  SelectSeq(SubSeq(KEYWORD_PATTERNS, i, Len(KEYWORD_PATTERNS)),
            LAMBDA kw : patternTest(kw.pattern, issue))

ruleIdsOf(kws) == [k \in 1..Len(kws) |-> kws[k].ruleId]

\* the loop over KEYWORD_PATTERNS from the i-th entry on (lines 150-154)
addKeywordMatches(candidates, issue, i) ==
  addAll(candidates, ruleIdsOf(matchingPatterns(issue, i)))

\* the property names an object literal inherits from Object.prototype:
\* WCAG_TO_RULES[name] is then a function or an object, truthy and not iterable
ObjectPrototypeKeys ==
  { "constructor", "__proto__", "hasOwnProperty", "isPrototypeOf",
    "propertyIsEnumerable", "toLocaleString", "toString", "valueOf",
    "__defineGetter__", "__defineSetter__", "__lookupGetter__",
    "__lookupSetter__" }

\* getCandidateRuleIds raises a TypeError at for (const r of rules) (line 145)
getCandidateRuleIdsThrows(violation) ==
  LET criterion == trim(stripScPrefix(violation.wcagCriterion))
  IN /\ criterion # ""
     /\ criterion \notin DOMAIN WCAG_TO_RULES
     /\ criterion \in ObjectPrototypeKeys

\* the value getCandidateRuleIds returns, when it returns
getCandidateRuleIds(violation) ==
  LET criterion == trim(stripScPrefix(violation.wcagCriterion))
      signal1 == IF criterion # "" /\ criterion \in DOMAIN WCAG_TO_RULES
                 THEN addAll(<<>>, WCAG_TO_RULES[criterion]) ELSE <<>>
  IN addKeywordMatches(signal1, violation.issue, 1)


(***************************************************************************)
(* Sample inputs of the matching functions                                 *)
(***************************************************************************)
MaxReported == 3

MaxExpected == 2

MaxActual == 2

SeqsUpTo(S, n) == UNION {[1..m -> S] : m \in 0..n}

CV(element, issue, wcagCriterion, impact) ==
  [element |-> element, issue |-> issue, wcagCriterion |-> wcagCriterion,
   impact |-> impact]

EV(ruleId, selectorPattern, impact) ==
  [ruleId |-> ruleId, selectorPattern |-> selectorPattern, impact |-> impact]

AV(ruleId, selector, impact) ==
  [ruleId |-> ruleId, selector |-> selector, impact |-> impact]

\* free-text defects as the external generator reports them
ClaudeSamples ==
  { CV("img", "missing alt", "1.1.1", "critical"),
    CV("IMG[alt] ", "Image is missing alt text", "SC 1.1.1", "serious"),
    CV("button:nth-of-type(2)", "Button has no accessible name", "4.1.2", "critical"),
    CV("div.card", "Low contrast text", "1.4.3", "moderate"),
    CV("picture", "alt attribute", "", "minor") }

\* a report the output schema admits (wcagCriterion is any string) whose
\* criterion names a member of Object.prototype; no keyword pattern matches it
Unresolvable == CV("span", "Element looks odd", "constructor", "minor")

ReportedSamples == ClaudeSamples \cup {Unresolvable}

\* ground truth of a case
ExpectedSamples ==
  { EV("text-alternatives/img-alt", "img", "critical"),
    EV("text-alternatives/img-alt", "img[alt]", "serious"),
    EV("labels-and-names/button-name", "button", "serious") }

\* structured defects as the detector reports them
ActualSamples ==
  { AV("text-alternatives/img-alt", "body > img:nth-of-type(1)", "critical"),
    AV("text-alternatives/img-alt", "im", "critical"),
    AV("labels-and-names/button-name", "form > button", "critical") }


(***************************************************************************)
(* matchClaudeViolations (matching.ts 203-289)                             *)
(*                                                                         *)
(* Array positions are 1-based here (0-based in the code); the code's      *)
(* bestIdx = -1 is 0.  An object reference held by the result (an element  *)
(* of matched, falsePositives, missed) is the position of that object in   *)
(* the input array it was taken from.                                      *)
(***************************************************************************)
\* IMPACT_SCORES[impact] ?? 0, for an impact that names no member of
\* Object.prototype
IMPACT_SCORES(impact) ==
  CASE impact = "critical" -> 3
    [] impact = "serious" -> 2
    [] impact = "moderate" -> 1
    [] impact = "minor" -> 0
    [] OTHER -> 0

Abs(n) == IF n < 0 THEN -n ELSE n

\* the bonus of an impact within one step of the other, equal or not
impactBonus_NoExact(cvImpact, evImpact) ==
  IF Abs(IMPACT_SCORES(cvImpact) - IMPACT_SCORES(evImpact)) <= 1 THEN 1 ELSE 0

\* lines 248-256; the score of an impact that names a member of
\* Object.prototype is that member, the difference is NaN and NaN <= 1 is false
impactBonus(cvImpact, evImpact) ==
  IF cvImpact = evImpact THEN 2
  ELSE IF cvImpact \in ObjectPrototypeKeys \/ evImpact \in ObjectPrototypeKeys THEN 0
  ELSE IF Abs(IMPACT_SCORES(cvImpact) - IMPACT_SCORES(evImpact)) <= 1 THEN 1
  ELSE 0

totalScore(cv, ev) ==
  elementMatchScore(cv.element, ev.selectorPattern) + impactBonus(cv.impact, ev.impact)

\* bestScan without the alreadyMatched.has(i) test of line 237
RECURSIVE bestScan_IgnoreConsumed(_, _, _, _, _, _, _)
bestScan_IgnoreConsumed(cv, candidateRuleIds, expected, consumed, i, bestIdx, bestScore) ==
  IF i > Len(expected) THEN bestIdx
  ELSE IF expected[i].ruleId \notin Range(candidateRuleIds) THEN
         bestScan_IgnoreConsumed(cv, candidateRuleIds, expected, consumed, i + 1,
                                 bestIdx, bestScore)
  ELSE IF totalScore(cv, expected[i]) > bestScore THEN
         bestScan_IgnoreConsumed(cv, candidateRuleIds, expected, consumed, i + 1, i,
                                 totalScore(cv, expected[i]))
  ELSE bestScan_IgnoreConsumed(cv, candidateRuleIds, expected, consumed, i + 1,
                               bestIdx, bestScore)

\* bestScan with >= for the > of line 260
RECURSIVE bestScan_LastOnTies(_, _, _, _, _, _, _)
bestScan_LastOnTies(cv, candidateRuleIds, expected, consumed, i, bestIdx, bestScore) ==
  IF i > Len(expected) THEN bestIdx
  ELSE IF i \in consumed \/ expected[i].ruleId \notin Range(candidateRuleIds) THEN
         bestScan_LastOnTies(cv, candidateRuleIds, expected, consumed, i + 1,
                             bestIdx, bestScore)
  ELSE IF totalScore(cv, expected[i]) >= bestScore THEN
         bestScan_LastOnTies(cv, candidateRuleIds, expected, consumed, i + 1, i,
                             totalScore(cv, expected[i]))
  ELSE bestScan_LastOnTies(cv, candidateRuleIds, expected, consumed, i + 1,
                           bestIdx, bestScore)

\* the inner for loop (lines 236-264) from position i on; yields bestIdx
RECURSIVE bestScan(_, _, _, _, _, _, _)
bestScan(cv, candidateRuleIds, expected, consumed, i, bestIdx, bestScore) ==
  IF i > Len(expected) THEN bestIdx
  ELSE IF i \in consumed THEN
         bestScan(cv, candidateRuleIds, expected, consumed, i + 1, bestIdx, bestScore)
  ELSE IF expected[i].ruleId \notin Range(candidateRuleIds) THEN
         bestScan(cv, candidateRuleIds, expected, consumed, i + 1, bestIdx, bestScore)
  ELSE IF totalScore(cv, expected[i]) > bestScore THEN
         bestScan(cv, candidateRuleIds, expected, consumed, i + 1, i,
                  totalScore(cv, expected[i]))
  ELSE bestScan(cv, candidateRuleIds, expected, consumed, i + 1, bestIdx, bestScore)

\* getCandidateRuleIds over the sample defects, evaluated once
candidateTable == [v \in ClaudeSamples |-> getCandidateRuleIds(v)]

\* const candidateRuleIds = getCandidateRuleIds(cv) (line 231)
candidateRuleIdsOf(cv) ==
  IF cv \in DOMAIN candidateTable THEN candidateTable[cv] ELSE getCandidateRuleIds(cv)

\* lines 231-264 for one reported defect: the chosen position, 0 for none
bestIdxFor(cv, expected, consumed) ==
  bestScan(cv, candidateRuleIdsOf(cv), expected, consumed, 1, 0, 0)

\* matchIteration without the alreadyMatched.add(bestIdx) of line 267
matchIteration_NoConsume(st, claude, expected, c) ==
  LET bestIdx == bestIdxFor(claude[c], expected, st.alreadyMatched)
  IN IF bestIdx >= 1
     THEN [alreadyMatched |-> st.alreadyMatched,
           matched |-> Append(st.matched,
                              [expected |-> bestIdx, claudeViolation |-> c]),
           falsePositives |-> st.falsePositives]
     ELSE [alreadyMatched |-> st.alreadyMatched,
           matched |-> st.matched,
           falsePositives |-> Append(st.falsePositives, c)]

\* one iteration of the outer loop (lines 230-275) on the loop's state
\* st = [alreadyMatched, matched, falsePositives] for reported position c
matchIteration(st, claude, expected, c) ==
  LET bestIdx == bestIdxFor(claude[c], expected, st.alreadyMatched)
  IN IF bestIdx >= 1
     THEN [alreadyMatched |-> st.alreadyMatched \cup {bestIdx},
           matched |-> Append(st.matched,
                              [expected |-> bestIdx, claudeViolation |-> c]),
           falsePositives |-> st.falsePositives]
     ELSE [alreadyMatched |-> st.alreadyMatched,
           matched |-> st.matched,
           falsePositives |-> Append(st.falsePositives, c)]

\* missedFrom with the filter of lines 277-279 keeping every position
RECURSIVE missedFrom_KeepAll(_, _, _)
missedFrom_KeepAll(n, consumed, i) ==
  IF i > n THEN <<>> ELSE <<i>> \o missedFrom_KeepAll(n, consumed, i + 1)

\* expectedViolations.filter((_, i) => !alreadyMatched.has(i)), as positions
RECURSIVE missedFrom(_, _, _)
missedFrom(n, consumed, i) ==
  IF i > n THEN <<>>
  ELSE (IF i \in consumed THEN <<>> ELSE <<i>>) \o missedFrom(n, consumed, i + 1)

\* the returned MatchResult (lines 277-288)
matchResultOf(st, expected) ==
  LET missed == missedFrom(Len(expected), st.alreadyMatched, 1)
  IN [tp |-> Len(st.matched), fp |-> Len(st.falsePositives), fn |-> Len(missed),
      matched |-> st.matched, falsePositives |-> st.falsePositives,
      missed |-> missed]

matchStart == [alreadyMatched |-> {}, matched |-> <<>>, falsePositives |-> <<>>]

RECURSIVE matchLoop(_, _, _, _)
matchLoop(st, claude, expected, c) ==
  IF c > Len(claude) THEN st
  ELSE matchLoop(matchIteration(st, claude, expected, c), claude, expected, c + 1)

\* matchClaudeViolations raises: getCandidateRuleIds (line 231) is called for
\* every reported defect and nothing catches what it raises
matchClaudeViolationsThrows(claude, expected) ==
  \E c \in 1..Len(claude) : getCandidateRuleIdsThrows(claude[c])

\* the whole function, for its callers
matchClaudeViolations(claude, expected) ==
  matchResultOf(matchLoop(matchStart, claude, expected, 1), expected)

(***************************************************************************)
(* mcpExactMatch (score.ts 40-64)                                          *)
(***************************************************************************)
\* exactPredicate with the containment turned round: the pattern contains
\* the selector
exactPredicate_Reversed(a, ev) ==
  /\ a.ruleId = ev.ruleId
  /\ includes(ev.selectorPattern, a.selector)
  /\ a.impact = ev.impact

\* the findIndex predicate (lines 50-53)
exactPredicate(a, ev) ==
  /\ a.ruleId = ev.ruleId
  /\ includes(a.selector, ev.selectorPattern)
  /\ a.impact = ev.impact

\* remaining.findIndex(...): first position in remaining, 0 for the code's -1;
\* remaining holds positions of actual
findIndex(rem, actualList, ev) ==
  IF \E i \in 1..Len(rem) : exactPredicate(actualList[rem[i]], ev)
  THEN CHOOSE i \in 1..Len(rem) :
         /\ exactPredicate(actualList[rem[i]], ev)
         /\ \A h \in 1..(i - 1) : ~exactPredicate(actualList[rem[h]], ev)
  ELSE 0

\* remaining.splice(idx, 1)
splice1(seq, idx) == SubSeq(seq, 1, idx - 1) \o SubSeq(seq, idx + 1, Len(seq))

\* one iteration of the loop (lines 48-61) on st = [remaining, tp, fn]
exactIteration(st, actualList, ev) ==
  LET idx == findIndex(st.remaining, actualList, ev)
  IN IF idx # 0
     THEN [remaining |-> splice1(st.remaining, idx), tp |-> st.tp + 1, fn |-> st.fn]
     ELSE [remaining |-> st.remaining, tp |-> st.tp, fn |-> st.fn + 1]

\* the array passed as actual after an iteration whose splice acts on that
\* array itself
actualAfter_Shared(actualList, rem, ev) ==
  IF findIndex(rem, actualList, ev) # 0
  THEN splice1(actualList, rem[findIndex(rem, actualList, ev)])
  ELSE actualList

\* the array passed as actual after the iteration for ev: remaining is the
\* copy [...actual] of line 44, and the splice of line 57 acts on the copy
actualAfter(actualList, rem, ev) == actualList

\* const remaining = [...actual]; let tp = 0; let fn = 0
exactStart(actualList) ==
  [remaining |-> [i \in 1..Len(actualList) |-> i], tp |-> 0, fn |-> 0]

exactResultOf(st) == [tp |-> st.tp, fp |-> Len(st.remaining), fn |-> st.fn]

RECURSIVE exactLoop(_, _, _, _)
exactLoop(st, actualList, expected, j) ==
  IF j > Len(expected) THEN st
  ELSE exactLoop(exactIteration(st, actualList, expected[j]), actualList, expected, j + 1)

mcpExactMatch(actualList, expected) ==
  exactResultOf(exactLoop(exactStart(actualList), actualList, expected, 1))


(***************************************************************************)
(* Numbers (the arithmetic of score.ts)                                    *)
(***************************************************************************)
RECURSIVE GCD(_, _)
GCD(a, b) == IF b = 0 THEN a ELSE GCD(b, a % b)

Sign(n) == IF n > 0 THEN 1 ELSE IF n < 0 THEN -1 ELSE 0

\* the number n / d for integers n and d >= 0
Norm(n, d) ==
  IF d = 0 THEN <<Sign(n), 0>>
  ELSE LET g == GCD(Abs(n), d) IN <<n \div g, d \div g>>

Num(n) == <<n, 1>>

NaN == <<0, 0>>

IsNaN(x) == x = NaN

IsFinite(x) == x[2] # 0

\* x + y
plus(x, y) ==
  IF IsNaN(x) \/ IsNaN(y) THEN NaN
  ELSE IF ~IsFinite(x) /\ ~IsFinite(y) THEN (IF x = y THEN x ELSE NaN)
  ELSE Norm(x[1] * y[2] + y[1] * x[2], x[2] * y[2])

\* x - y
minus(x, y) == plus(x, <<-y[1], y[2]>>)

\* x * y
times(x, y) ==
  IF IsNaN(x) \/ IsNaN(y) THEN NaN ELSE Norm(x[1] * y[1], x[2] * y[2])

\* x / y
over(x, y) ==
  IF IsNaN(x) \/ IsNaN(y) THEN NaN
  ELSE IF ~IsFinite(x) /\ ~IsFinite(y) THEN NaN
  ELSE IF y[1] < 0 THEN Norm(-(x[1] * y[2]), x[2] * (-y[1]))
  ELSE Norm(x[1] * y[2], x[2] * y[1])

\* x < y
less(x, y) ==
  /\ ~IsNaN(x) /\ ~IsNaN(y)
  /\ x # y
  /\ IF IsFinite(x) /\ IsFinite(y) THEN x[1] * y[2] < y[1] * x[2]
     ELSE IF ~IsFinite(x) THEN x[1] < 0
     ELSE y[1] > 0

\* arr.reduce((a, b) => a + b, 0)
RECURSIVE sum(_)
sum(arr) == IF arr = <<>> THEN Num(0) ELSE plus(Head(arr), sum(Tail(arr)))

\* mean (score.ts 29-32)
mean_NoDivide(arr) == sum(arr)

mean(arr) == IF Len(arr) = 0 THEN Num(0) ELSE over(sum(arr), Num(Len(arr)))

\* Math.sqrt(q)
sqrtOf(q) == [radicand |-> q]

\* arr.reduce((sum, v) => sum + (v - m) ** 2, 0)
RECURSIVE sumSquares(_, _)
sumSquares(arr, m) ==
  IF arr = <<>> THEN Num(0)
  ELSE plus(times(minus(Head(arr), m), minus(Head(arr), m)), sumSquares(Tail(arr), m))

\* stddev (score.ts 34-38)
stddev(arr) ==
  IF Len(arr) <= 1 THEN sqrtOf(Num(0))
  ELSE sqrtOf(over(sumSquares(arr, mean(arr)), Num(Len(arr))))

\* computePRF without the all-zero case of line 22
computePRF_NoPerfectCase(ctp, cfp, cfn) ==
  LET precision == IF ctp + cfp > 0 THEN over(Num(ctp), Num(ctp + cfp)) ELSE Num(0)
      recall == IF ctp + cfn > 0 THEN over(Num(ctp), Num(ctp + cfn)) ELSE Num(0)
      f1 == IF less(Num(0), plus(precision, recall))
            THEN over(times(times(Num(2), precision), recall), plus(precision, recall))
            ELSE Num(0)
  IN [precision |-> precision, recall |-> recall, f1 |-> f1]

\* computePRF (score.ts 20-27)
computePRF(ctp, cfp, cfn) ==
  IF ctp = 0 /\ cfp = 0 /\ cfn = 0
  THEN [precision |-> Num(1), recall |-> Num(1), f1 |-> Num(1)]
  ELSE
    LET precision == IF ctp + cfp > 0 THEN over(Num(ctp), Num(ctp + cfp)) ELSE Num(0)
        recall == IF ctp + cfn > 0 THEN over(Num(ctp), Num(ctp + cfn)) ELSE Num(0)
        f1 == IF less(Num(0), plus(precision, recall))
              THEN over(times(times(Num(2), precision), recall), plus(precision, recall))
              ELSE Num(0)
    IN [precision |-> precision, recall |-> recall, f1 |-> f1]

(***************************************************************************)
(* State                                                                   *)
(***************************************************************************)
VARIABLES
  call,               \* the function being run
  pc,                 \* its position: "loop", "done"
  claudeViolations,   \* matchClaudeViolations: first argument
  expectedViolations, \* second argument of both functions
  actual,             \* mcpExactMatch: first argument
  cursor,             \* number of loop iterations completed
  alreadyMatched,     \* matching.ts 226
  matched,            \* matching.ts 227
  falsePositives,     \* matching.ts 228
  remaining,          \* score.ts 44
  tp,                 \* score.ts 45
  fn,                 \* score.ts 46
  matchResult,        \* the value returned
  fnName,             \* a function applied on its own: its name,
  fnPc,               \*   "called" or "returned",
  fnArgs,             \*   its arguments
  fnRet,              \*   and the value it returned (<<>> before)
  scorePc,            \* score.ts: position of the script
  results,            \* score.ts 16: results.cases, in Object.entries order
  caseCursor,         \* number of iterations completed by the current loop
  scores,             \* score.ts 67
  aggregate,          \* score.ts 146-172
  fixScores,          \* score.ts 327
  fixAggregate,       \* score.ts 381-392
  runPc,              \* run.ts: position of the benchmark run
  runConfig,          \* the flags and RUNS
  manifest,           \* manifest.cases
  caseIndex,          \* number of cases completed
  runIndex,           \* i of the trial loop
  invoked,            \* what invokeClaude returned in the trials of the case
  claudeResults,      \* claudeResults of the case
  runOutput,          \* results.cases, in insertion order
  storedAudits,       \* state.js: the Map, <<name, result>> in insertion order
  ruleOptions,        \* the rule engine: what configureRules last set
  created,            \* number of AuditResult objects runAudit has returned
  storeLog,           \* history: the storeAudit calls, <<name, result>> in order
  pending,            \* tool calls awaiting their fetch or readFile
  received,           \* number of tool calls received
  lastCall            \* history: the tool call that returned last

matchVars ==
  <<call, pc, claudeViolations, expectedViolations, actual, cursor,
    alreadyMatched, matched, falsePositives, remaining, tp, fn, matchResult>>

fnVars == <<fnName, fnPc, fnArgs, fnRet>>

scoreVars ==
  <<scorePc, results, caseCursor, scores, aggregate, fixScores, fixAggregate>>

runVars ==
  <<runPc, runConfig, manifest, caseIndex, runIndex, invoked, claudeResults,
    runOutput>>

serverVars ==
  <<storedAudits, ruleOptions, created, storeLog, pending, received, lastCall>>

vars == <<matchVars, fnVars, scoreVars, runVars, serverVars>>

\* the server has not been started
ServerIdle ==
  /\ storedAudits = <<>> /\ ruleOptions = <<>> /\ created = 0
  /\ storeLog = <<>> /\ pending = {} /\ received = 0 /\ lastCall = <<>>

\* the benchmark is not running
RunIdle ==
  /\ runPc = "idle" /\ runConfig = <<>> /\ manifest = <<>> /\ caseIndex = 0
  /\ runIndex = 0 /\ invoked = <<>> /\ claudeResults = <<>> /\ runOutput = <<>>

\* the matching functions are not running
MatchIdle ==
  /\ call = "none" /\ pc = "idle"
  /\ claudeViolations = <<>> /\ expectedViolations = <<>> /\ actual = <<>>
  /\ cursor = 0 /\ alreadyMatched = {} /\ matched = <<>> /\ falsePositives = <<>>
  /\ remaining = <<>> /\ tp = 0 /\ fn = 0
  /\ matchResult = [tp |-> 0, fp |-> 0, fn |-> 0]

\* no function is applied on its own
FnIdle == fnName = "none" /\ fnPc = "idle" /\ fnArgs = <<>> /\ fnRet = <<>>

\* the scoring script is not running
ScoreIdle ==
  /\ scorePc = "idle" /\ results = <<>> /\ caseCursor = 0 /\ scores = <<>>
  /\ aggregate = [computed |-> FALSE]
  /\ fixScores = <<>> /\ fixAggregate = [computed |-> FALSE]

(***************************************************************************)
(* The matching functions, one loop iteration per step                     *)
(***************************************************************************)
InitMatch ==
  /\ call \in {"matchClaudeViolations", "mcpExactMatch"}
  /\ pc = "loop"
  /\ expectedViolations \in SeqsUpTo(ExpectedSamples, MaxExpected)
  /\ claudeViolations \in
       IF call = "matchClaudeViolations"
       THEN SeqsUpTo(ReportedSamples, MaxReported) ELSE {<<>>}
  /\ actual \in
       IF call = "mcpExactMatch" THEN SeqsUpTo(ActualSamples, MaxActual) ELSE {<<>>}
  /\ cursor = 0
  /\ alreadyMatched = {}
  /\ matched = <<>>
  /\ falsePositives = <<>>
  /\ remaining = [i \in 1..Len(actual) |-> i]
  /\ tp = 0
  /\ fn = 0
  /\ matchResult = [tp |-> 0, fp |-> 0, fn |-> 0]
  /\ FnIdle
  /\ ServerIdle
  /\ ScoreIdle
  /\ RunIdle

\* matching.ts 231, getCandidateRuleIds raises for claudeViolations[cursor + 1]
MatchThrow ==
  /\ call = "matchClaudeViolations" /\ pc = "loop"
  /\ cursor < Len(claudeViolations)
  /\ getCandidateRuleIdsThrows(claudeViolations[cursor + 1])
  /\ pc' = "thrown"
  /\ UNCHANGED <<fnVars, scoreVars, runVars, serverVars>>
  /\ UNCHANGED <<call, claudeViolations, expectedViolations, actual, cursor,
                 alreadyMatched, matched, falsePositives, remaining, tp, fn,
                 matchResult>>

\* matching.ts 230-275, the iteration for claudeViolations[cursor + 1]
MatchStep ==
  /\ call = "matchClaudeViolations" /\ pc = "loop"
  /\ cursor < Len(claudeViolations)
  /\ ~getCandidateRuleIdsThrows(claudeViolations[cursor + 1])
  /\ LET st == matchIteration(
                 [alreadyMatched |-> alreadyMatched, matched |-> matched,
                  falsePositives |-> falsePositives],
                 claudeViolations, expectedViolations, cursor + 1)
     IN /\ alreadyMatched' = st.alreadyMatched
        /\ matched' = st.matched
        /\ falsePositives' = st.falsePositives
  /\ cursor' = cursor + 1
  /\ UNCHANGED <<fnVars, scoreVars, runVars, serverVars>>
  /\ UNCHANGED <<call, pc, claudeViolations, expectedViolations, actual,
                 remaining, tp, fn, matchResult>>

\* matching.ts 277-288
MatchReturn ==
  /\ call = "matchClaudeViolations" /\ pc = "loop"
  /\ cursor = Len(claudeViolations)
  /\ matchResult' = matchResultOf(
                      [alreadyMatched |-> alreadyMatched, matched |-> matched,
                       falsePositives |-> falsePositives], expectedViolations)
  /\ pc' = "done"
  /\ UNCHANGED <<fnVars, scoreVars, runVars, serverVars>>
  /\ UNCHANGED <<call, claudeViolations, expectedViolations, actual, cursor,
                 alreadyMatched, matched, falsePositives, remaining, tp, fn>>

\* score.ts 48-61, the iteration for expected[cursor + 1]
ExactStep ==
  /\ call = "mcpExactMatch" /\ pc = "loop"
  /\ cursor < Len(expectedViolations)
  /\ LET st == exactIteration([remaining |-> remaining, tp |-> tp, fn |-> fn],
                              actual, expectedViolations[cursor + 1])
     IN /\ remaining' = st.remaining
        /\ tp' = st.tp
        /\ fn' = st.fn
  /\ actual' = actualAfter(actual, remaining, expectedViolations[cursor + 1])
  /\ cursor' = cursor + 1
  /\ UNCHANGED <<fnVars, scoreVars, runVars, serverVars>>
  /\ UNCHANGED <<call, pc, claudeViolations, expectedViolations,
                 alreadyMatched, matched, falsePositives, matchResult>>

\* score.ts 63
ExactReturn ==
  /\ call = "mcpExactMatch" /\ pc = "loop"
  /\ cursor = Len(expectedViolations)
  /\ matchResult' = exactResultOf([remaining |-> remaining, tp |-> tp, fn |-> fn])
  /\ pc' = "done"
  /\ UNCHANGED <<fnVars, scoreVars, runVars, serverVars>>
  /\ UNCHANGED <<call, claudeViolations, expectedViolations, actual, cursor,
                 alreadyMatched, matched, falsePositives, remaining, tp, fn>>

NextMatch == MatchStep \/ MatchThrow \/ MatchReturn \/ ExactStep \/ ExactReturn

SpecMatch == InitMatch /\ [][NextMatch]_vars


(***************************************************************************)
(* Claims about the matching functions (checked under SpecMatch)           *)
(***************************************************************************)
Done(f) == call = f /\ pc = "done"

\* C1: for every reported list and expected list the result of
\* matchClaudeViolations has tp + fn = |expected| and tp + fp = |reported|,
\* and the result of mcpExactMatch has tp + fn = |expected| and
\* tp + fp = |actual|.
C1_CountsAddUp ==
  /\ Done("matchClaudeViolations") =>
       /\ matchResult.tp + matchResult.fn = Len(expectedViolations)
       /\ matchResult.tp + matchResult.fp = Len(claudeViolations)
  /\ Done("mcpExactMatch") =>
       /\ matchResult.tp + matchResult.fn = Len(expectedViolations)
       /\ matchResult.tp + matchResult.fp = Len(actual)

\* a finished fuzzy match with a pair, a false positive and a miss
C1_Witness ==
  /\ Done("matchClaudeViolations")
  /\ matchResult.tp >= 1 /\ matchResult.fp >= 1 /\ matchResult.fn >= 1

\* a finished exact match with a pair, a false positive and a miss
C1_WitnessExact ==
  /\ Done("mcpExactMatch")
  /\ matchResult.tp >= 1 /\ matchResult.fp >= 1 /\ matchResult.fn >= 1

\* C2: in matchClaudeViolations each expected defect (by position) and each
\* reported defect (by position) is in at most one matched pair; an expected
\* defect chosen for one reported defect is never chosen for a later one.
C2_OneToOne ==
  call = "matchClaudeViolations" =>
    /\ \A i, j \in 1..Len(matched) :
         i # j => /\ matched[i].expected # matched[j].expected
                  /\ matched[i].claudeViolation # matched[j].claudeViolation
    /\ alreadyMatched = {matched[i].expected : i \in 1..Len(matched)}
    /\ pc = "done" => matchResult.matched = matched

\* two pairs, where the second reported defect would have taken the first
\* one's expected defect had it not been consumed
C2_Witness ==
  /\ call = "matchClaudeViolations"
  /\ Len(matched) = 2
  /\ bestIdxFor(claudeViolations[matched[2].claudeViolation], expectedViolations, {})
       = matched[1].expected

\* the expected positions consumed before reported position c is processed
ConsumedBefore(c) ==
  {matched[i].expected : i \in {h \in 1..Len(matched) : matched[h].claudeViolation < c}}

\* composite score of reported position c against expected position i
Composite(c, i) == totalScore(claudeViolations[c], expectedViolations[i])

\* the expected positions reported position c may be paired with
Eligible(c) ==
  {i \in 1..Len(expectedViolations) :
     /\ i \notin ConsumedBefore(c)
     /\ expectedViolations[i].ruleId \in Range(candidateRuleIdsOf(claudeViolations[c]))
     /\ Composite(c, i) > 0}

PairedWith(c) == {m.expected : m \in {x \in Range(matched) : x.claudeViolation = c}}

\* C3: each reported defect, in input order, is paired with the unconsumed
\* expected defect with a candidate ruleId whose composite score is highest,
\* the earliest on ties; with no such defect of score above 0 it is left
\* unmatched and is a false positive.
C3_GreedyBest ==
  call = "matchClaudeViolations" =>
    \A c \in 1..cursor :
      IF Eligible(c) = {}
      THEN PairedWith(c) = {} /\ c \in Range(falsePositives)
      ELSE /\ c \notin Range(falsePositives)
           /\ \E best \in Eligible(c) :
                /\ PairedWith(c) = {best}
                /\ \A i \in Eligible(c) :
                     /\ Composite(c, i) <= Composite(c, best)
                     /\ i < best => Composite(c, i) < Composite(c, best)

\* a reported defect paired with the second expected defect because it scores
\* strictly higher than the first, which was also eligible
C3_Witness ==
  /\ call = "matchClaudeViolations"
  /\ cursor >= 1
  /\ Eligible(1) = {1, 2}
  /\ PairedWith(1) = {2}

\* a tie between two eligible expected defects, resolved to the earlier one
C3_WitnessTie ==
  /\ call = "matchClaudeViolations"
  /\ cursor >= 1
  /\ Eligible(1) = {1, 2}
  /\ Composite(1, 1) = Composite(1, 2)
  /\ PairedWith(1) = {1}

\* a reported defect with a candidate ruleId but composite score 0
C3_WitnessZero ==
  /\ call = "matchClaudeViolations"
  /\ cursor >= 1
  /\ \E i \in 1..Len(expectedViolations) :
       /\ expectedViolations[i].ruleId \in Range(candidateRuleIdsOf(claudeViolations[1]))
       /\ Composite(1, i) = 0
  /\ 1 \in Range(falsePositives)

\* two reported defects, both with a positive composite score against the
\* single expected defect
TwoForOne ==
  /\ Len(claudeViolations) = 2
  /\ Len(expectedViolations) = 1
  /\ \A c \in 1..2 :
       /\ expectedViolations[1].ruleId \in Range(candidateRuleIdsOf(claudeViolations[c]))
       /\ Composite(c, 1) > 0

FirstWins(r) ==
  /\ r.matched = <<[expected |-> 1, claudeViolation |-> 1]>>
  /\ r.falsePositives = <<2>>
  /\ r.tp = 1 /\ r.fp = 1 /\ r.fn = 0

\* C4: when two reported defects both score above 0 against the same single
\* expected defect, the earlier one is matched and the later one is a false
\* positive (tp = 1, fp = 1, fn = 0); with the two swapped, the other one is
\* matched.
C4_FirstInOrderWins ==
  (Done("matchClaudeViolations") /\ TwoForOne) =>
    /\ FirstWins(matchResult)
    /\ FirstWins(matchClaudeViolations(
                   <<claudeViolations[2], claudeViolations[1]>>, expectedViolations))

\* the case with two different reported defects
C4_Witness ==
  /\ Done("matchClaudeViolations")
  /\ TwoForOne
  /\ claudeViolations[1] # claudeViolations[2]


(***************************************************************************)
(* computePRF applied to counts                                            *)
(***************************************************************************)
MaxCount == 5

InitPRF ==
  /\ MatchIdle
  /\ ServerIdle
  /\ ScoreIdle
  /\ RunIdle
  /\ fnName = "computePRF" /\ fnPc = "called"
  /\ fnArgs \in [tp : 0..MaxCount, fp : 0..MaxCount, fn : 0..MaxCount]
  /\ fnRet = <<>>

CallComputePRF ==
  /\ fnName = "computePRF" /\ fnPc = "called"
  /\ fnRet' = computePRF(fnArgs.tp, fnArgs.fp, fnArgs.fn)
  /\ fnPc' = "returned"
  /\ UNCHANGED <<fnName, fnArgs>>
  /\ UNCHANGED <<matchVars, scoreVars, runVars, serverVars>>

NextPRF == CallComputePRF

SpecPRF == InitPRF /\ [][NextPRF]_vars

Returned(f) == fnName = f /\ fnPc = "returned"

\* the number x is the quotient n / d of integers, d > 0
IsQuotient(x, n, d) == IsFinite(x) /\ x[1] * d = n * x[2]

\* C5: computePRF returns (1,1,1) for tp = fp = fn = 0; otherwise precision
\* is tp/(tp+fp) if tp+fp > 0 else 0, recall is tp/(tp+fn) if tp+fn > 0 else
\* 0, and F1 is 2*precision*recall/(precision+recall) if that sum is above 0
\* else 0 (which is 2tp/(2tp+fp+fn)); (5,0,0) gives (1,1,1) and (0,0,3)
\* gives (0,0,0).
C5_ComputePRF ==
  Returned("computePRF") =>
    LET a == fnArgs
        r == fnRet
    IN /\ (a.tp = 0 /\ a.fp = 0 /\ a.fn = 0) =>
            r = [precision |-> Num(1), recall |-> Num(1), f1 |-> Num(1)]
       /\ (a.tp + a.fp + a.fn > 0) =>
            /\ IF a.tp + a.fp > 0 THEN IsQuotient(r.precision, a.tp, a.tp + a.fp)
               ELSE r.precision = Num(0)
            /\ IF a.tp + a.fn > 0 THEN IsQuotient(r.recall, a.tp, a.tp + a.fn)
               ELSE r.recall = Num(0)
            /\ IF a.tp > 0 THEN IsQuotient(r.f1, 2 * a.tp, 2 * a.tp + a.fp + a.fn)
               ELSE r.f1 = Num(0)
            /\ r.f1 = IF less(Num(0), plus(r.precision, r.recall))
                      THEN over(times(times(Num(2), r.precision), r.recall),
                                plus(r.precision, r.recall))
                      ELSE Num(0)
       /\ (a.tp = 5 /\ a.fp = 0 /\ a.fn = 0) =>
            r = [precision |-> Num(1), recall |-> Num(1), f1 |-> Num(1)]
       /\ (a.tp = 0 /\ a.fp = 0 /\ a.fn = 3) =>
            r = [precision |-> Num(0), recall |-> Num(0), f1 |-> Num(0)]

\* the all-zero counts, scored
C5_Witness ==
  /\ Returned("computePRF")
  /\ fnArgs = [tp |-> 0, fp |-> 0, fn |-> 0]
  /\ fnRet.f1 = Num(1)

\* counts with a fractional precision, recall and F1
C5_WitnessFraction ==
  /\ Returned("computePRF")
  /\ fnArgs = [tp |-> 1, fp |-> 2, fn |-> 1]
  /\ fnRet = [precision |-> <<1, 3>>, recall |-> <<1, 2>>, f1 |-> <<2, 5>>]


(***************************************************************************)
(* The benchmark run (run.ts), which writes the results file               *)
(*                                                                         *)
(* What the external generator and the detector return is input.  An       *)
(* absent optional string (error) is "", which is as falsy as absence.     *)
(* Of a record only the fields the scoring reads are kept (not caseId,     *)
(* source, runIndex, tokens, description, mode, difficulty).               *)
(***************************************************************************)
RV(ruleId, selector, impact, issue, wcagCriterion) ==
  [ruleId |-> ruleId, selector |-> selector, impact |-> impact,
   issue |-> issue, wcagCriterion |-> wcagCriterion]

\* candidates[0] ?? "unknown" (matching.ts 311)
firstOrUnknown(candidates) ==
  IF Len(candidates) >= 1 THEN candidates[1] ELSE "unknown"

\* rawOfMatchResult with the loop over the false positives (lines 308-318)
\* run before the loop over the matched defects (lines 297-306)
rawOfMatchResult_FalsePositivesFirst(mr, violations, expected) ==
  LET fromMatched ==
        [i \in 1..Len(mr.matched) |->
           LET m == mr.matched[i]
               cv == violations[m.claudeViolation]
           IN RV(expected[m.expected].ruleId, cv.element, cv.impact, cv.issue,
                 cv.wcagCriterion)]
      fromFalsePositives ==
        [i \in 1..Len(mr.falsePositives) |->
           LET fp == violations[mr.falsePositives[i]]
           IN RV(firstOrUnknown(candidateRuleIdsOf(fp)), fp.element, fp.impact,
                 fp.issue, fp.wcagCriterion)]
  IN fromFalsePositives \o fromMatched

\* the two loops of claudeToRawViolations over the match result mr
\* (matching.ts 297-318)
rawOfMatchResult(mr, violations, expected) ==
  LET fromMatched ==
        [i \in 1..Len(mr.matched) |->
           LET m == mr.matched[i]
               cv == violations[m.claudeViolation]
           IN RV(expected[m.expected].ruleId, cv.element, cv.impact, cv.issue,
                 cv.wcagCriterion)]
      fromFalsePositives ==
        [i \in 1..Len(mr.falsePositives) |->
           LET fp == violations[mr.falsePositives[i]]
           IN RV(firstOrUnknown(candidateRuleIdsOf(fp)), fp.element, fp.impact,
                 fp.issue, fp.wcagCriterion)]
  IN fromMatched \o fromFalsePositives

\* claudeToRawViolations (matching.ts 291-321)
claudeToRawViolations(violations, expected) ==
  rawOfMatchResult(matchClaudeViolations(violations, expected), violations,
                   expected)

\* claudeToRawViolations raises what matchClaudeViolations (line 295) raises
claudeToRawViolationsThrows(violations, expected) ==
  matchClaudeViolationsThrows(violations, expected)

\* runMcpCase (run.ts), for the detector's result
runMcpCase(auditResult) ==
  IF auditResult.threw
  THEN [durationMs |-> auditResult.durationMs, raw |-> <<>>, error |-> "audit failed"]
  ELSE [durationMs |-> auditResult.durationMs,
        raw |-> [i \in 1..Len(auditResult.violations) |->
                   LET v == auditResult.violations[i]
                   IN AV(v.ruleId, v.selector, v.impact)],
        error |-> ""]

\* runClaudeCase (run.ts), for the result of invokeClaude
runClaudeCase(result, expected) ==
  IF result.error # ""
  THEN [durationMs |-> result.durationMs, raw |-> <<>>, error |-> result.error]
  ELSE [durationMs |-> result.durationMs,
        raw |-> claudeToRawViolations(result.parsed, expected),
        error |-> ""]

\* runClaudeCase raises: its call of claudeToRawViolations is outside every
\* try block
runClaudeCaseThrows(result, expected) ==
  result.error = "" /\ claudeToRawViolationsThrows(result.parsed, expected)

\* `${v.ruleId}|${v.selector}`
keyOf(v) == v.ruleId \o "|" \o v.selector

\* keySet as an array: a repeated key is kept
RECURSIVE keySet_KeepDuplicates(_, _)
keySet_KeepDuplicates(violations, acc) ==
  IF violations = <<>> THEN acc
  ELSE keySet_KeepDuplicates(Tail(violations), Append(acc, keyOf(Head(violations))))

\* new Set(violations.map(keyOf)), in insertion order
RECURSIVE keySet(_, _)
keySet(violations, acc) ==
  IF violations = <<>> THEN acc
  ELSE keySet(Tail(violations), setAdd(acc, keyOf(Head(violations))))

\* for (const key of keys) if (!others.has(key)) count++
RECURSIVE countAbsent(_, _)
countAbsent(keys, others) ==
  IF keys = <<>> THEN 0
  ELSE (IF Head(keys) \in Range(others) THEN 0 ELSE 1)
       + countAbsent(Tail(keys), others)

\* html === null
NullHtml == "null"

\* the result of a fix attempt that did not produce a re-audit
fixFailure(result, originalViolationCount, fixedHtml, error) ==
  [durationMs |-> result.durationMs,
   originalViolationCount |-> originalViolationCount,
   fixedHtml |-> fixedHtml, reauditViolationCount |-> 0,
   fixedCount |-> 0, regressionCount |-> 0, error |-> error]

\* runHybridFix (run.ts), for the result of invokeClaudeFix, the audit of the
\* original html and the audit of the fixed html
runHybridFix(result, originalResult, reaudit, originalViolationCount) ==
  IF result.error # "" \/ result.html = NullHtml
  THEN fixFailure(result, originalViolationCount, "",
                  IF result.error # "" THEN result.error ELSE "No HTML returned")
  ELSE IF reaudit.threw
  THEN fixFailure(result, originalViolationCount, result.html, "Re-audit failed")
  ELSE
    LET originalKeys == keySet(originalResult.violations, <<>>)
        reauditKeys == keySet(reaudit.violations, <<>>)
    IN [durationMs |-> result.durationMs,
        originalViolationCount |-> originalViolationCount,
        fixedHtml |-> result.html,
        reauditViolationCount |-> Len(reaudit.violations),
        fixedCount |-> countAbsent(originalKeys, reauditKeys),
        regressionCount |-> countAbsent(reauditKeys, originalKeys),
        error |-> ""]

\* runClaudeFix (run.ts): the same steps after a different prompt
runClaudeFix(result, originalResult, reaudit, originalViolationCount) ==
  IF result.error # "" \/ result.html = NullHtml
  THEN fixFailure(result, originalViolationCount, "",
                  IF result.error # "" THEN result.error ELSE "No HTML returned")
  ELSE IF reaudit.threw
  THEN fixFailure(result, originalViolationCount, result.html, "Re-audit failed")
  ELSE
    LET originalKeys == keySet(originalResult.violations, <<>>)
        reauditKeys == keySet(reaudit.violations, <<>>)
    IN [durationMs |-> result.durationMs,
        originalViolationCount |-> originalViolationCount,
        fixedHtml |-> result.html,
        reauditViolationCount |-> Len(reaudit.violations),
        fixedCount |-> countAbsent(originalKeys, reauditKeys),
        regressionCount |-> countAbsent(reauditKeys, originalKeys),
        error |-> ""]


(***************************************************************************)
(* Fix attempts applied to audits (run.ts)                                 *)
(***************************************************************************)
\* what the detector finds in a page
AuditSamples ==
  ActualSamples \cup {AV("text-alternatives/img-alt", "im", "serious")}

MaxAudit == 2

\* an audit that returned
Audited(violations) == [threw |-> FALSE, durationMs |-> 12, violations |-> violations]

\* what invokeClaudeFix returns: an error, no html, html
FixResultSamples ==
  { [error |-> "timeout", html |-> NullHtml, durationMs |-> 30000],
    [error |-> "", html |-> NullHtml, durationMs |-> 2400],
    [error |-> "", html |-> "<main></main>", durationMs |-> 2400] }

InitFixRun ==
  /\ MatchIdle
  /\ ServerIdle
  /\ ScoreIdle
  /\ RunIdle
  /\ fnName \in {"runHybridFix", "runClaudeFix"}
  /\ fnPc = "called"
  /\ fnArgs \in [result : FixResultSamples,
                 originalResult : {Audited(v) : v \in SeqsUpTo(AuditSamples, MaxAudit)},
                 reaudit : {Audited(v) : v \in SeqsUpTo(AuditSamples, MaxAudit)}
                           \cup {[threw |-> TRUE, durationMs |-> 12, violations |-> <<>>]}]
  /\ fnRet = <<>>

CallRunHybridFix ==
  /\ fnName = "runHybridFix" /\ fnPc = "called"
  /\ fnRet' = runHybridFix(fnArgs.result, fnArgs.originalResult, fnArgs.reaudit,
                           Len(fnArgs.originalResult.violations))
  /\ fnPc' = "returned"
  /\ UNCHANGED <<fnName, fnArgs>>
  /\ UNCHANGED <<matchVars, scoreVars, runVars, serverVars>>

CallRunClaudeFix ==
  /\ fnName = "runClaudeFix" /\ fnPc = "called"
  /\ fnRet' = runClaudeFix(fnArgs.result, fnArgs.originalResult, fnArgs.reaudit,
                           Len(fnArgs.originalResult.violations))
  /\ fnPc' = "returned"
  /\ UNCHANGED <<fnName, fnArgs>>
  /\ UNCHANGED <<matchVars, scoreVars, runVars, serverVars>>

NextFixRun == CallRunHybridFix \/ CallRunClaudeFix

SpecFixRun == InitFixRun /\ [][NextFixRun]_vars

\* a fix attempt returned after re-auditing the fixed html
Reaudited ==
  /\ fnName \in {"runHybridFix", "runClaudeFix"} /\ fnPc = "returned"
  /\ fnArgs.result.error = "" /\ fnArgs.result.html # NullHtml
  /\ ~fnArgs.reaudit.threw

BeforeKeys == {v.ruleId \o "|" \o v.selector : v \in Range(fnArgs.originalResult.violations)}

AfterKeys == {v.ruleId \o "|" \o v.selector : v \in Range(fnArgs.reaudit.violations)}

\* C10: with defects keyed by ruleId + "|" + selector, fixedCount is the
\* number of distinct before-keys that are not after-keys and regressionCount
\* the number of distinct after-keys that are not before-keys: a defect that
\* disappears is 1 fixed and 0 regressions, a new defect 0 fixed and 1
\* regression, identical before and after sets 0 and 0.
C10_FixDeltaBySetDifference ==
  Reaudited =>
    /\ fnRet.fixedCount = Cardinality(BeforeKeys \ AfterKeys)
    /\ fnRet.regressionCount = Cardinality(AfterKeys \ BeforeKeys)
    /\ (Cardinality(BeforeKeys) = 1 /\ AfterKeys = {}) =>
         (fnRet.fixedCount = 1 /\ fnRet.regressionCount = 0)
    /\ (BeforeKeys = {} /\ Cardinality(AfterKeys) = 1) =>
         (fnRet.fixedCount = 0 /\ fnRet.regressionCount = 1)
    /\ (BeforeKeys = AfterKeys) =>
         (fnRet.fixedCount = 0 /\ fnRet.regressionCount = 0)

\* the same defect found twice before and gone after, with a new one
C10_Witness ==
  /\ Reaudited
  /\ Len(fnArgs.originalResult.violations) = 2
  /\ Cardinality(BeforeKeys) = 1
  /\ Cardinality(AfterKeys \ BeforeKeys) = 1
  /\ fnRet.fixedCount = 1 /\ fnRet.regressionCount = 1

\* identical key sets from different lists
C10_WitnessSame ==
  /\ Reaudited
  /\ fnArgs.originalResult.violations # fnArgs.reaudit.violations
  /\ BeforeKeys = AfterKeys /\ BeforeKeys # {}
  /\ fnRet.fixedCount = 0 /\ fnRet.regressionCount = 0


(***************************************************************************)
(* The scoring script (score.ts 66-172 and 306-392)                        *)
(***************************************************************************)
\* score.ts 97-102
reconstruct(raw) ==
  [i \in 1..Len(raw) |->
     CV(raw[i].selector, raw[i].issue, raw[i].wcagCriterion, raw[i].impact)]

\* the entry pushed for a run that did not fail, from its match result mr
\* (score.ts 105-111)
scoredRun(mr, run) ==
  LET prf == computePRF(mr.tp, mr.fp, mr.fn)
  IN [tp |-> mr.tp, fp |-> mr.fp, fn |-> mr.fn,
      matched |-> mr.matched, falsePositives |-> mr.falsePositives,
      missed |-> mr.missed,
      precision |-> prf.precision, recall |-> prf.recall, f1 |-> prf.f1,
      durationMs |-> run.durationMs]

\* the body of the loop over caseData.claude (score.ts 82-112)
claudeRunScore(run, expected) ==
  IF run.error # ""
  THEN [tp |-> 0, fp |-> 0, fn |-> Len(expected),
        precision |-> Num(0), recall |-> Num(0), f1 |-> Num(0),
        durationMs |-> run.durationMs]
  ELSE scoredRun(matchClaudeViolations(reconstruct(run.raw), expected), run)

\* claudeRunScores with an errored run skipped instead of pushed
RECURSIVE claudeRunScores_DropErrored(_, _)
claudeRunScores_DropErrored(claude, expected) ==
  IF claude = <<>> THEN <<>>
  ELSE (IF Head(claude).error # "" THEN <<>>
        ELSE <<claudeRunScore(Head(claude), expected)>>)
       \o claudeRunScores_DropErrored(Tail(claude), expected)

\* claudeRunScores after the loop (score.ts 80-112)
RECURSIVE claudeRunScores(_, _)
claudeRunScores(claude, expected) ==
  IF claude = <<>> THEN <<>>
  ELSE <<claudeRunScore(Head(claude), expected)>>
       \o claudeRunScores(Tail(claude), expected)

precisionOf(runs) == [i \in 1..Len(runs) |-> runs[i].precision]

recallOf(runs) == [i \in 1..Len(runs) |-> runs[i].recall]

f1Of(runs) == [i \in 1..Len(runs) |-> runs[i].f1]

durationMsOf(runs) == [i \in 1..Len(runs) |-> Num(runs[i].durationMs)]

\* the CaseScore pushed at score.ts 127-141, from the metrics of the detector
\* run and the scores of the generator runs
caseScore(caseId, caseData, mcpMetrics, runs) ==
  LET mcpPRF == computePRF(mcpMetrics.tp, mcpMetrics.fp, mcpMetrics.fn)
  IN [caseId |-> caseId,
      expectedCount |-> Len(caseData.expectedViolations),
      mcp |-> [tp |-> mcpMetrics.tp, fp |-> mcpMetrics.fp, fn |-> mcpMetrics.fn,
               precision |-> mcpPRF.precision, recall |-> mcpPRF.recall,
               f1 |-> mcpPRF.f1,
               durationMs |-> IF Len(caseData.mcp) >= 1
                              THEN caseData.mcp[1].durationMs ELSE 0],
      claude |-> [runs |-> runs,
                  mean |-> [precision |-> mean(precisionOf(runs)),
                            recall |-> mean(recallOf(runs)),
                            f1 |-> mean(f1Of(runs)),
                            durationMs |-> mean(durationMsOf(runs))],
                  stddev |-> [precision |-> stddev(precisionOf(runs)),
                              recall |-> stddev(recallOf(runs)),
                              f1 |-> stddev(f1Of(runs))]]]

\* one iteration of the loop over results.cases (score.ts 69-142)
scoreCase(caseId, caseData) ==
  caseScore(caseId, caseData,
            IF Len(caseData.mcp) >= 1
            THEN mcpExactMatch(caseData.mcp[1].raw, caseData.expectedViolations)
            ELSE [tp |-> 0, fp |-> 0, fn |-> Len(caseData.expectedViolations)],
            claudeRunScores(caseData.claude, caseData.expectedViolations))

\* scores.filter((s) => s.claude.runs.length > 0)
withRuns(ss) == SelectSeq(ss, LAMBDA sc : Len(sc.claude.runs) > 0)

\* the trials of all cases in one list
RECURSIVE allRuns(_)
allRuns(ss) ==
  IF ss = <<>> THEN <<>> ELSE Head(ss).claude.runs \o allRuns(Tail(ss))

\* aggregateOf with the generator figures pooled over the trials of all cases
aggregateOf_Pooled(ss) ==
  [computed |-> TRUE,
   hasClaude |-> \E i \in 1..Len(ss) : Len(ss[i].claude.runs) > 0,
   aggMcpP |-> mean([i \in 1..Len(ss) |-> ss[i].mcp.precision]),
   aggMcpR |-> mean([i \in 1..Len(ss) |-> ss[i].mcp.recall]),
   aggMcpF1 |-> mean([i \in 1..Len(ss) |-> ss[i].mcp.f1]),
   aggMcpMs |-> mean([i \in 1..Len(ss) |-> Num(ss[i].mcp.durationMs)]),
   aggClaudeP |-> mean(precisionOf(allRuns(ss))),
   aggClaudeR |-> mean(recallOf(allRuns(ss))),
   aggClaudeF1 |-> mean(f1Of(allRuns(ss))),
   aggClaudeMs |-> mean(durationMsOf(allRuns(ss))),
   aggClaudePStd |-> stddev([i \in 1..Len(withRuns(ss)) |->
                               withRuns(ss)[i].claude.mean.precision]),
   aggClaudeRStd |-> stddev([i \in 1..Len(withRuns(ss)) |->
                               withRuns(ss)[i].claude.mean.recall]),
   aggClaudeF1Std |-> stddev([i \in 1..Len(withRuns(ss)) |->
                                withRuns(ss)[i].claude.mean.f1])]

\* score.ts 146 and 160-172
aggregateOf(ss) ==
  [computed |-> TRUE,
   hasClaude |-> \E i \in 1..Len(ss) : Len(ss[i].claude.runs) > 0,
   aggMcpP |-> mean([i \in 1..Len(ss) |-> ss[i].mcp.precision]),
   aggMcpR |-> mean([i \in 1..Len(ss) |-> ss[i].mcp.recall]),
   aggMcpF1 |-> mean([i \in 1..Len(ss) |-> ss[i].mcp.f1]),
   aggMcpMs |-> mean([i \in 1..Len(ss) |-> Num(ss[i].mcp.durationMs)]),
   aggClaudeP |-> mean([i \in 1..Len(ss) |-> ss[i].claude.mean.precision]),
   aggClaudeR |-> mean([i \in 1..Len(ss) |-> ss[i].claude.mean.recall]),
   aggClaudeF1 |-> mean([i \in 1..Len(ss) |-> ss[i].claude.mean.f1]),
   aggClaudeMs |-> mean([i \in 1..Len(ss) |-> ss[i].claude.mean.durationMs]),
   aggClaudePStd |-> stddev([i \in 1..Len(withRuns(ss)) |->
                               withRuns(ss)[i].claude.mean.precision]),
   aggClaudeRStd |-> stddev([i \in 1..Len(withRuns(ss)) |->
                               withRuns(ss)[i].claude.mean.recall]),
   aggClaudeF1Std |-> stddev([i \in 1..Len(withRuns(ss)) |->
                                withRuns(ss)[i].claude.mean.f1])]

\* positions in results.cases of the cases kept by score.ts 307-309
RECURSIVE fixCasesFrom(_, _)
fixCasesFrom(cases, i) ==
  IF i > Len(cases) THEN <<>>
  ELSE (IF /\ Len(cases[i].expectedViolations) > 0
           /\ (Len(cases[i].hybridFix) > 0 \/ Len(cases[i].claudeFix) > 0)
        THEN <<i>> ELSE <<>>)
       \o fixCasesFrom(cases, i + 1)

fixCases(cases) == fixCasesFrom(cases, 1)

\* firstFix?.originalViolationCount ?? 0 (score.ts 330-331)
origCountOf(caseData) ==
  IF Len(caseData.hybridFix) >= 1 THEN caseData.hybridFix[1].originalViolationCount
  ELSE IF Len(caseData.claudeFix) >= 1
  THEN caseData.claudeFix[1].originalViolationCount
  ELSE 0

\* the loops over the attempts of a case (score.ts 338-347 and 357-366)
RECURSIVE fixRates(_, _)
fixRates(attempts, origCount) ==
  IF attempts = <<>>
  THEN [fixRates |-> <<>>, regrRates |-> <<>>, netImprovements |-> <<>>]
  ELSE
    LET rest == fixRates(Tail(attempts), origCount)
        a == Head(attempts)
        fr == over(Num(a.fixedCount), Num(origCount))
        rr == over(Num(a.regressionCount), Num(origCount))
    IN IF a.error # "" THEN rest
       ELSE [fixRates |-> <<fr>> \o rest.fixRates,
             regrRates |-> <<rr>> \o rest.regrRates,
             netImprovements |-> <<minus(fr, rr)>> \o rest.netImprovements]

\* the CaseFixScore pushed at score.ts 368-378
caseFixScore(caseId, caseData, origCount) ==
  LET hybrid == fixRates(caseData.hybridFix, origCount)
      claude == fixRates(caseData.claudeFix, origCount)
  IN [caseId |-> caseId,
      originalViolations |-> origCount,
      hybridFixRate |-> mean(hybrid.fixRates),
      hybridRegrRate |-> mean(hybrid.regrRates),
      hybridNetImprovement |-> mean(hybrid.netImprovements),
      claudeFixRates |-> claude.fixRates,
      claudeRegrRates |-> claude.regrRates,
      claudeNetImprovements |-> claude.netImprovements]

\* fixScoreCase without the if (origCount === 0) continue of line 332
fixScoreCase_NoZeroGuard(fs, caseId, caseData) ==
  Append(fs, caseFixScore(caseId, caseData, origCountOf(caseData)))

\* one iteration of the loop over fixCases (score.ts 329-379): fixScores after it
fixScoreCase(fs, caseId, caseData) ==
  IF origCountOf(caseData) = 0 THEN fs
  ELSE Append(fs, caseFixScore(caseId, caseData, origCountOf(caseData)))

\* fixScores.filter((s) => s.claudeFixRates.length > 0) and its two siblings
withClaudeFixRates(fs) == SelectSeq(fs, LAMBDA sc : Len(sc.claudeFixRates) > 0)

withClaudeRegrRates(fs) == SelectSeq(fs, LAMBDA sc : Len(sc.claudeRegrRates) > 0)

withClaudeNetImprovements(fs) ==
  SelectSeq(fs, LAMBDA sc : Len(sc.claudeNetImprovements) > 0)

\* score.ts 382-392
fixAggregateOf(fs) ==
  [computed |-> TRUE,
   aggHybridFixRate |-> mean([i \in 1..Len(fs) |-> fs[i].hybridFixRate]),
   aggHybridRegrRate |-> mean([i \in 1..Len(fs) |-> fs[i].hybridRegrRate]),
   aggHybridNetImpr |-> mean([i \in 1..Len(fs) |-> fs[i].hybridNetImprovement]),
   aggClaudeFixRate |-> mean([i \in 1..Len(fs) |-> mean(fs[i].claudeFixRates)]),
   aggClaudeRegrRate |-> mean([i \in 1..Len(fs) |-> mean(fs[i].claudeRegrRates)]),
   aggClaudeNetImpr |->
     mean([i \in 1..Len(fs) |-> mean(fs[i].claudeNetImprovements)]),
   aggClaudeFixRateStd |->
     stddev([i \in 1..Len(withClaudeFixRates(fs)) |->
               mean(withClaudeFixRates(fs)[i].claudeFixRates)]),
   aggClaudeRegrRateStd |->
     stddev([i \in 1..Len(withClaudeRegrRates(fs)) |->
               mean(withClaudeRegrRates(fs)[i].claudeRegrRates)]),
   aggClaudeNetImprStd |->
     stddev([i \in 1..Len(withClaudeNetImprovements(fs)) |->
               mean(withClaudeNetImprovements(fs)[i].claudeNetImprovements)])]


(***************************************************************************)
(* Results files, as the benchmark run writes them                         *)
(***************************************************************************)
MaxRuns == 2

MaxCases == 2

\* manifest cases with what the detector finds in their page
TestCase(expected, found) ==
  [expectedViolations |-> expected, auditResult |-> Audited(found)]

CleanPage == TestCase(<<>>, <<>>)

ImagePage ==
  TestCase(<<EV("text-alternatives/img-alt", "img", "critical")>>,
           <<AV("text-alternatives/img-alt", "body > img:nth-of-type(1)", "critical"),
             AV("labels-and-names/button-name", "form > button", "critical")>>)

UndetectedPage ==
  TestCase(<<EV("text-alternatives/img-alt", "img", "critical")>>, <<>>)

\* what invokeClaude returns: an error, no defects, two defects
ClaudeTimeout == [error |-> "timeout", parsed |-> <<>>, durationMs |-> 30000]

ClaudeNothing == [error |-> "", parsed |-> <<>>, durationMs |-> 900]

ClaudeTwo ==
  [error |-> "", durationMs |-> 1500,
   parsed |-> <<CV("img", "missing alt", "1.1.1", "critical"),
                CV("div.card", "Low contrast text", "1.4.3", "moderate")>>]

\* what invokeClaudeFix returns: an error, html
FixTimeout == [error |-> "timeout", html |-> NullHtml, durationMs |-> 30000]

FixHtml == [error |-> "", html |-> "<main></main>", durationMs |-> 2400]

\* a fix attempt: what invokeClaudeFix returns and the audit of its html
FailedAttempt == [result |-> FixTimeout, reaudit |-> Audited(<<>>)]

HybridAttempt ==
  [result |-> FixHtml,
   reaudit |-> Audited(<<AV("text-alternatives/img-alt", "im", "critical")>>)]

ClaudeAttempt ==
  [result |-> FixHtml,
   reaudit |-> Audited(<<AV("text-alternatives/img-alt",
                            "body > img:nth-of-type(1)", "critical")>>)]

\* the command line: --skip-fix, --fix-only, --mcp-only
FlagSamples ==
  { [mcpOnly |-> FALSE, skipFix |-> TRUE, fixOnly |-> FALSE],
    [mcpOnly |-> FALSE, skipFix |-> FALSE, fixOnly |-> TRUE],
    [mcpOnly |-> TRUE, skipFix |-> FALSE, fixOnly |-> FALSE] }

\* one iteration of the loop over manifest.cases (run.ts main loop): the entry
\* written to results.cases
runCase(testCase, flags, RUNS, invokeResults, hybridAttempts, claudeAttempts) ==
  LET mcpResult == runMcpCase(testCase.auditResult)
      hasViolations == Len(testCase.expectedViolations) > 0
      fixing == ~flags.skipFix /\ ~flags.mcpOnly /\ hasViolations
  IN [expectedViolations |-> testCase.expectedViolations,
      mcp |-> <<mcpResult>>,
      claude |->
        IF ~flags.mcpOnly /\ ~flags.fixOnly
        THEN [i \in 1..RUNS |->
                runClaudeCase(invokeResults[i], testCase.expectedViolations)]
        ELSE <<>>,
      hybridFix |->
        IF fixing
        THEN [i \in 1..RUNS |->
                runHybridFix(hybridAttempts[i].result, testCase.auditResult,
                             hybridAttempts[i].reaudit, Len(mcpResult.raw))]
        ELSE <<>>,
      claudeFix |->
        IF fixing
        THEN [i \in 1..RUNS |->
                runClaudeFix(claudeAttempts[i].result, testCase.auditResult,
                             claudeAttempts[i].reaudit, Len(mcpResult.raw))]
        ELSE <<>>]

\* the pages a run is made over
TestCasesFor(flags) ==
  IF flags.fixOnly THEN {CleanPage, ImagePage, UndetectedPage}
  ELSE {CleanPage, ImagePage}

\* the generator results drawn for a page
ClaudeResultsFor(testCase) ==
  IF Len(testCase.expectedViolations) = 0 THEN {ClaudeTimeout, ClaudeNothing}
  ELSE {ClaudeTimeout, ClaudeTwo}

\* the hybrid and the generator-only fix attempt drawn for one run index
FixAttemptsFor(testCase) ==
  IF Len(testCase.auditResult.violations) = 0
  THEN {[hybrid |-> HybridAttempt, claude |-> ClaudeAttempt]}
  ELSE {[hybrid |-> FailedAttempt, claude |-> ClaudeAttempt],
        [hybrid |-> HybridAttempt, claude |-> FailedAttempt],
        [hybrid |-> HybridAttempt, claude |-> ClaudeAttempt]}

\* the entries a run with these flags can write for one case
CaseEntries(flags, RUNS) ==
  UNION { UNION { { runCase(t, flags, RUNS, cr,
                            [i \in 1..Len(fa) |-> fa[i].hybrid],
                            [i \in 1..Len(fa) |-> fa[i].claude]) :
                      cr \in IF ~flags.mcpOnly /\ ~flags.fixOnly
                             THEN [1..RUNS -> ClaudeResultsFor(t)] ELSE {<<>>} } :
                  fa \in IF ~flags.skipFix /\ ~flags.mcpOnly
                            /\ Len(t.expectedViolations) > 0
                         THEN [1..RUNS -> FixAttemptsFor(t)] ELSE {<<>>} } :
          t \in TestCasesFor(flags) }

\* results.cases of the files a run can write
ResultsFiles ==
  UNION { UNION { [1..k -> CaseEntries(flags, RUNS)] : k \in 0..MaxCases } :
          <<flags, RUNS>> \in FlagSamples \X (1..MaxRuns) }

\* the command line without the fix phase
SkipFix == [mcpOnly |-> FALSE, skipFix |-> TRUE, fixOnly |-> FALSE]

\* results.cases of files put together from a run of one trial per case and
\* a run of MaxRuns trials per case: the script scores the file it is given
\* (score.ts 69), whatever the number of trials of each of its cases
UnevenFiles ==
  { <<c1, c2>> : c1 \in CaseEntries(SkipFix, 1), c2 \in CaseEntries(SkipFix, MaxRuns) }

InitScore ==
  /\ MatchIdle
  /\ ServerIdle
  /\ FnIdle
  /\ RunIdle
  /\ scorePc = "cases"
  /\ results \in ResultsFiles \cup UnevenFiles
  /\ caseCursor = 0
  /\ scores = <<>>
  /\ aggregate = [computed |-> FALSE]
  /\ fixScores = <<>>
  /\ fixAggregate = [computed |-> FALSE]

\* score.ts 69-142, the iteration for the next case
ScoreCase ==
  /\ scorePc = "cases"
  /\ caseCursor < Len(results)
  /\ scores' = Append(scores, scoreCase(caseCursor + 1, results[caseCursor + 1]))
  /\ caseCursor' = caseCursor + 1
  /\ UNCHANGED <<scorePc, results, aggregate, fixScores, fixAggregate>>
  /\ UNCHANGED <<matchVars, fnVars, runVars, serverVars>>

\* score.ts 146-172, after the loop
Aggregate ==
  /\ scorePc = "cases"
  /\ caseCursor = Len(results)
  /\ aggregate' = aggregateOf(scores)
  /\ scorePc' = "fix"
  /\ caseCursor' = 0
  /\ UNCHANGED <<results, scores, fixScores, fixAggregate>>
  /\ UNCHANGED <<matchVars, fnVars, runVars, serverVars>>

\* score.ts 329-379, the iteration for the next of fixCases
FixScoreCase ==
  /\ scorePc = "fix"
  /\ caseCursor < Len(fixCases(results))
  /\ LET caseId == fixCases(results)[caseCursor + 1]
     IN fixScores' = fixScoreCase(fixScores, caseId, results[caseId])
  /\ caseCursor' = caseCursor + 1
  /\ UNCHANGED <<scorePc, results, scores, aggregate, fixAggregate>>
  /\ UNCHANGED <<matchVars, fnVars, runVars, serverVars>>

\* score.ts 381-392, after the loop; nothing when fixScores is empty
FixAggregate ==
  /\ scorePc = "fix"
  /\ caseCursor = Len(fixCases(results))
  /\ fixAggregate' = IF Len(fixScores) > 0 THEN fixAggregateOf(fixScores)
                     ELSE fixAggregate
  /\ scorePc' = "done"
  /\ UNCHANGED <<results, caseCursor, scores, aggregate, fixScores>>
  /\ UNCHANGED <<matchVars, fnVars, runVars, serverVars>>

NextScore == ScoreCase \/ Aggregate \/ FixScoreCase \/ FixAggregate

SpecScore == InitScore /\ [][NextScore]_vars


(***************************************************************************)
(* Claims about the scoring script (checked under SpecScore)               *)
(***************************************************************************)
\* the counts of trial j of scored case i: tp = 0, fp = 0, fn = |expected|
\* for an errored trial, the counts of its entry otherwise
TrialCounts(i, j) ==
  IF results[i].claude[j].error # ""
  THEN [tp |-> 0, fp |-> 0, fn |-> Len(results[i].expectedViolations)]
  ELSE [tp |-> scores[i].claude.runs[j].tp, fp |-> scores[i].claude.runs[j].fp,
        fn |-> scores[i].claude.runs[j].fn]

\* C6: every per-trial score of a scored case, the score of an errored trial
\* included, equals computePRF applied to the trial's counts, an errored
\* trial's counts being tp = 0, fp = 0, fn = number of expected defects; so
\* every trial with no expected and no reported defects scores 1, 1, 1.
C6_TrialScoreIsComputePRF ==
  \A i \in 1..Len(scores) :
    \A j \in 1..Len(scores[i].claude.runs) :
      LET s == scores[i].claude.runs[j]
          c == TrialCounts(i, j)
          prf == computePRF(c.tp, c.fp, c.fn)
      IN /\ s.tp = c.tp /\ s.fp = c.fp /\ s.fn = c.fn
         /\ s.precision = prf.precision
         /\ s.recall = prf.recall
         /\ s.f1 = prf.f1
         /\ (Len(results[i].expectedViolations) = 0
             /\ Len(results[i].claude[j].raw) = 0) =>
              (s.precision = Num(1) /\ s.recall = Num(1) /\ s.f1 = Num(1))

\* C7: an errored trial is never dropped: the list of trial scores of a case
\* has one entry per recorded trial, the entry of an errored trial has tp = 0,
\* fp = 0 and fn = number of expected defects, and the per-case mean and
\* standard deviation of precision, recall and F1 are taken over every entry.
C7_ErroredTrialKept ==
  \A i \in 1..Len(scores) :
    LET runs == scores[i].claude.runs
        recorded == results[i].claude
        n == Len(recorded)
        m == scores[i].claude.mean
        sd == scores[i].claude.stddev
    IN /\ Len(runs) = n
       /\ \A j \in 1..n :
            recorded[j].error # "" =>
              /\ runs[j].tp = 0 /\ runs[j].fp = 0
              /\ runs[j].fn = Len(results[i].expectedViolations)
       /\ n > 0 =>
            /\ times(m.precision, Num(n)) = sum(precisionOf(runs))
            /\ times(m.recall, Num(n)) = sum(recallOf(runs))
            /\ times(m.f1, Num(n)) = sum(f1Of(runs))
       /\ n > 1 =>
            /\ times(sd.precision.radicand, Num(n))
                 = sumSquares(precisionOf(runs), m.precision)
            /\ times(sd.recall.radicand, Num(n)) = sumSquares(recallOf(runs), m.recall)
            /\ times(sd.f1.radicand, Num(n)) = sumSquares(f1Of(runs), m.f1)

\* a case scored from an errored trial and a trial with F1 = 2/3: the mean F1
\* is 1/3 and the variance 1/9
C7_Witness ==
  \E i \in 1..Len(scores) :
    /\ Len(results[i].claude) = 2
    /\ results[i].claude[1].error # ""
    /\ results[i].claude[2].error = ""
    /\ scores[i].claude.runs[2].f1 = <<2, 3>>
    /\ scores[i].claude.mean.f1 = <<1, 3>>
    /\ scores[i].claude.stddev.f1 = sqrtOf(<<1, 9>>)

\* the attempts that did not end in error
Succeeded(attempts) == SelectSeq(attempts, LAMBDA a : a.error = "")

\* the entries of fixScores whose case has a successful hybrid attempt
WithHybridSuccess ==
  SelectSeq(fixScores, LAMBDA e : Len(Succeeded(results[e.caseId].hybridFix)) > 0)

\* the entries of fixScores whose case has a successful generator-only attempt
WithClaudeSuccess ==
  SelectSeq(fixScores, LAMBDA e : Len(Succeeded(results[e.caseId].claudeFix)) > 0)

\* C8: a fix attempt that ended in error is excluded from the averaged fix
\* rate, regression rate and net improvement of its case and is never a
\* zero-valued sample: the per-case averages are taken over the successful
\* attempts only, and the dataset-level aggregates over the cases that have
\* a successful attempt.
C8_ErroredFixAttemptsExcluded ==
  /\ \A k \in 1..Len(fixScores) :
       LET e == fixScores[k]
           ok == Succeeded(results[e.caseId].hybridFix)
           okClaude == Succeeded(results[e.caseId].claudeFix)
           orig == Num(e.originalViolations)
       IN /\ Len(ok) > 0 =>
               /\ e.hybridFixRate
                    = mean([a \in 1..Len(ok) |-> over(Num(ok[a].fixedCount), orig)])
               /\ e.hybridRegrRate
                    = mean([a \in 1..Len(ok) |-> over(Num(ok[a].regressionCount), orig)])
               /\ e.hybridNetImprovement
                    = mean([a \in 1..Len(ok) |->
                              minus(over(Num(ok[a].fixedCount), orig),
                                    over(Num(ok[a].regressionCount), orig))])
          /\ e.claudeFixRates
               = [a \in 1..Len(okClaude) |-> over(Num(okClaude[a].fixedCount), orig)]
          /\ e.claudeRegrRates
               = [a \in 1..Len(okClaude) |->
                    over(Num(okClaude[a].regressionCount), orig)]
  /\ fixAggregate.computed =>
       /\ Len(WithHybridSuccess) > 0 =>
            /\ fixAggregate.aggHybridFixRate
                 = mean([k \in 1..Len(WithHybridSuccess) |->
                           WithHybridSuccess[k].hybridFixRate])
            /\ fixAggregate.aggHybridRegrRate
                 = mean([k \in 1..Len(WithHybridSuccess) |->
                           WithHybridSuccess[k].hybridRegrRate])
            /\ fixAggregate.aggHybridNetImpr
                 = mean([k \in 1..Len(WithHybridSuccess) |->
                           WithHybridSuccess[k].hybridNetImprovement])
       /\ Len(WithClaudeSuccess) > 0 =>
            /\ fixAggregate.aggClaudeFixRate
                 = mean([k \in 1..Len(WithClaudeSuccess) |->
                           mean(WithClaudeSuccess[k].claudeFixRates)])
            /\ fixAggregate.aggClaudeRegrRate
                 = mean([k \in 1..Len(WithClaudeSuccess) |->
                           mean(WithClaudeSuccess[k].claudeRegrRates)])
            /\ fixAggregate.aggClaudeNetImpr
                 = mean([k \in 1..Len(WithClaudeSuccess) |->
                           mean(WithClaudeSuccess[k].claudeNetImprovements)])

\* every rate of a fixScores entry is a finite number
FiniteRates(e) ==
  /\ IsFinite(e.hybridFixRate) /\ IsFinite(e.hybridRegrRate)
  /\ IsFinite(e.hybridNetImprovement)
  /\ \A a \in 1..Len(e.claudeFixRates) : IsFinite(e.claudeFixRates[a])
  /\ \A a \in 1..Len(e.claudeRegrRates) : IsFinite(e.claudeRegrRates[a])
  /\ \A a \in 1..Len(e.claudeNetImprovements) : IsFinite(e.claudeNetImprovements[a])

\* the fix attempts recorded for case i all carry an original count of 0
ZeroOriginalCount(i) ==
  /\ Len(results[i].hybridFix) + Len(results[i].claudeFix) > 0
  /\ \A a \in 1..Len(results[i].hybridFix) :
       results[i].hybridFix[a].originalViolationCount = 0
  /\ \A a \in 1..Len(results[i].claudeFix) :
       results[i].claudeFix[a].originalViolationCount = 0

\* C9: a case whose original violation count is 0 never appears in the fix
\* scores, and fix rate and regression rate are only ever computed with a
\* denominator greater than 0.
C9_ZeroOriginalCountExcluded ==
  \A k \in 1..Len(fixScores) :
    /\ fixScores[k].originalViolations > 0
    /\ ~ZeroOriginalCount(fixScores[k].caseId)
    /\ FiniteRates(fixScores[k])

\* the fix loop has passed a case with original count 0 and kept another
C9_Witness ==
  /\ scorePc = "done"
  /\ Len(fixScores) = 1
  /\ \E i \in 1..Len(results) :
       /\ ZeroOriginalCount(i)
       /\ \A a \in 1..Len(results[i].hybridFix) : results[i].hybridFix[a].error = ""
       /\ fixScores[1].caseId # i


(***************************************************************************)
(* Claims about mcpExactMatch, step by step (checked under SpecMatch)      *)
(***************************************************************************)
\* s is a substring of t, character by character
IsSubstring(s, t) ==
  \E k \in 0..(Len(t) - Len(s)) : \A c \in 1..Len(s) : CharAt(t, k + c) = CharAt(s, c)

\* the places of remaining whose actual defect has the ruleId and the impact
\* of the expected defect ev and a selector that contains its selectorPattern
Matching(ev) ==
  { i \in 1..Len(remaining) :
      /\ actual[remaining[i]].ruleId = ev.ruleId
      /\ actual[remaining[i]].impact = ev.impact
      /\ IsSubstring(ev.selectorPattern, actual[remaining[i]].selector) }

\* C11: mcpExactMatch counts an expected defect as a true positive only when
\* some not-yet-consumed actual defect has the same ruleId, the same impact
\* and a selector containing the selectorPattern; it consumes the first such
\* actual defect in list order, so no actual defect is matched twice, and
\* every actual defect left unconsumed is a false positive.
C11_ExactPredicateFirstFound ==
  [][ (call = "mcpExactMatch" /\ pc = "loop") =>
        /\ cursor' = cursor + 1 =>
             LET ev == expectedViolations[cursor + 1]
                 first == CHOOSE i \in Matching(ev) : \A h \in Matching(ev) : i <= h
             IN IF Matching(ev) # {}
                THEN /\ tp' = tp + 1 /\ fn' = fn
                     /\ Len(remaining') = Len(remaining) - 1
                     /\ \A i \in 1..Len(remaining') :
                          remaining'[i] = remaining[IF i < first THEN i ELSE i + 1]
                ELSE /\ tp' = tp /\ fn' = fn + 1 /\ remaining' = remaining
        /\ pc' = "done" =>
             /\ matchResult'.fp = Len(remaining)
             /\ matchResult'.tp + matchResult'.fp = Len(actual)
             /\ \A i, h \in 1..Len(remaining) : i # h => remaining[i] # remaining[h]
    ]_vars

\* two equal actual defects fit the one expected defect: the first is
\* consumed and the second is left as a false positive
C11_Witness ==
  /\ Done("mcpExactMatch")
  /\ Len(actual) = 2 /\ Len(expectedViolations) = 1
  /\ actual[1] = actual[2]
  /\ matchResult.tp = 1 /\ matchResult.fp = 1
  /\ remaining = <<2>>

\* an actual selector that is contained in the pattern, not the other way
\* round, is not matched
C11_WitnessDirection ==
  /\ Done("mcpExactMatch")
  /\ Len(actual) = 1 /\ Len(expectedViolations) = 1
  /\ actual[1].ruleId = expectedViolations[1].ruleId
  /\ actual[1].impact = expectedViolations[1].impact
  /\ IsSubstring(actual[1].selector, expectedViolations[1].selectorPattern)
  /\ matchResult.tp = 0 /\ matchResult.fp = 1 /\ matchResult.fn = 1


(***************************************************************************)
(* claudeToRawViolations as a function of its arguments (SpecRaw)          *)
(***************************************************************************)
InitRaw ==
  /\ MatchIdle
  /\ ServerIdle
  /\ ScoreIdle
  /\ RunIdle
  /\ fnName = "claudeToRawViolations"
  /\ fnPc = "called"
  /\ fnArgs \in [violations : SeqsUpTo(ReportedSamples, MaxReported),
                 expected : SeqsUpTo(ExpectedSamples, MaxExpected)]
  /\ fnRet = <<>>

CallClaudeToRawViolations ==
  /\ fnName = "claudeToRawViolations" /\ fnPc = "called"
  /\ ~claudeToRawViolationsThrows(fnArgs.violations, fnArgs.expected)
  /\ fnRet' = claudeToRawViolations(fnArgs.violations, fnArgs.expected)
  /\ fnPc' = "returned"
  /\ UNCHANGED <<fnName, fnArgs>>
  /\ UNCHANGED <<matchVars, scoreVars, runVars, serverVars>>

\* the TypeError of getCandidateRuleIds leaves claudeToRawViolations
ClaudeToRawViolationsThrow ==
  /\ fnName = "claudeToRawViolations" /\ fnPc = "called"
  /\ claudeToRawViolationsThrows(fnArgs.violations, fnArgs.expected)
  /\ fnPc' = "thrown"
  /\ UNCHANGED <<fnName, fnArgs, fnRet>>
  /\ UNCHANGED <<matchVars, scoreVars, runVars, serverVars>>

NextRaw == CallClaudeToRawViolations \/ ClaudeToRawViolationsThrow

SpecRaw == InitRaw /\ [][NextRaw]_vars

\* no rule id is listed for the criterion of cv (SC prefix stripped, trimmed)
\* and no keyword pattern matches its issue text
NoCandidates(cv) ==
  LET criterion == trim(stripScPrefix(cv.wcagCriterion))
  IN /\ criterion \in DOMAIN WCAG_TO_RULES => WCAG_TO_RULES[criterion] = <<>>
     /\ \A k \in 1..Len(KEYWORD_PATTERNS) :
          ~patternTest(KEYWORD_PATTERNS[k].pattern, cv.issue)

Unattributable == [cv \in ReportedSamples |-> NoCandidates(cv)]

\* the records of raw that carry the fields of the reported defect cv
RecordsFor(raw, cv) ==
  { r \in 1..Len(raw) :
      /\ raw[r].selector = cv.element /\ raw[r].issue = cv.issue
      /\ raw[r].wcagCriterion = cv.wcagCriterion /\ raw[r].impact = cv.impact }

\* the report at place i is not matched, is a false positive, and raw holds
\* one record per report equal to it, each with ruleId "unknown"
UnknownFalsePositive(mr, violations, raw, i) ==
  /\ \A m \in 1..Len(mr.matched) : mr.matched[m].claudeViolation # i
  /\ \E f \in 1..Len(mr.falsePositives) : mr.falsePositives[f] = i
  /\ Cardinality(RecordsFor(raw, violations[i]))
       = Cardinality({h \in 1..Len(violations) : violations[h] = violations[i]})
  /\ \A r \in RecordsFor(raw, violations[i]) : raw[r].ruleId = "unknown"

\* C12: for a reported defect whose candidate rule set is empty,
\* claudeToRawViolations does not raise, the defect is never matched and is
\* counted as a false positive, and exactly one record is emitted for it,
\* with ruleId "unknown".
C12_EmptyCandidatesUnknown ==
  (fnName = "claudeToRawViolations" /\ fnPc # "called") =>
    \A i \in 1..Len(fnArgs.violations) :
      Unattributable[fnArgs.violations[i]] =>
        /\ fnPc = "returned"
        /\ UnknownFalsePositive(
             matchClaudeViolations(fnArgs.violations, fnArgs.expected),
             fnArgs.violations, fnRet, i)

\* the same for the calls that return
C12_ReturnedUnknown ==
  Returned("claudeToRawViolations") =>
    \A i \in 1..Len(fnArgs.violations) :
      Unattributable[fnArgs.violations[i]] =>
        UnknownFalsePositive(
          matchClaudeViolations(fnArgs.violations, fnArgs.expected),
          fnArgs.violations, fnRet, i)

\* a returning call with an unattributable report next to an attributed one
C12_WitnessReturned ==
  /\ Returned("claudeToRawViolations")
  /\ Len(fnRet) = 2
  /\ fnRet[1].ruleId # "unknown" /\ fnRet[2].ruleId = "unknown"


(***************************************************************************)
(* The benchmark run (run.ts, main loop), trial by trial (SpecRun)         *)
(***************************************************************************)
\* a generator answer that fits the output schema and names a criterion
\* getCandidateRuleIds cannot look up
ClaudeUnresolvable ==
  [error |-> "", durationMs |-> 1200, parsed |-> <<Unresolvable>>]

\* what invokeClaude can return for a page
GeneratorResultsFor(testCase) ==
  ClaudeResultsFor(testCase) \cup {ClaudeUnresolvable}

RunFlagSamples ==
  FlagSamples \cup {[mcpOnly |-> FALSE, skipFix |-> FALSE, fixOnly |-> FALSE]}

\* the fix attempts of a run: one that fails in the hybrid loop and succeeds
\* in the generator-only loop
RunFixAttempts == {[hybrid |-> FailedAttempt, claude |-> ClaudeAttempt]}

\* the CaseRunResult returned by runClaudeCase, with its caseId and runIndex
caseRunResult(r, caseId, i) ==
  [caseId |-> caseId, runIndex |-> i, durationMs |-> r.durationMs,
   raw |-> r.raw, error |-> r.error]

\* if (!MCP_ONLY && !FIX_ONLY)
TrialsEnabled == ~runConfig.flags.mcpOnly /\ ~runConfig.flags.fixOnly

InitRun ==
  /\ MatchIdle
  /\ ServerIdle
  /\ FnIdle
  /\ ScoreIdle
  /\ runPc = "case"
  /\ runConfig \in [flags : RunFlagSamples, runs : 0..MaxRuns]
  /\ manifest \in UNION {[1..k -> {CleanPage, ImagePage}] : k \in 1..MaxCases}
  /\ caseIndex = 0
  /\ runIndex = 0
  /\ invoked = <<>>
  /\ claudeResults = <<>>
  /\ runOutput = <<>>

\* the head of an iteration over manifest.cases: the detector's run, then
\* claudeResults = [] and i = 0
StartCase ==
  /\ runPc = "case" /\ caseIndex < Len(manifest)
  /\ claudeResults' = <<>>
  /\ invoked' = <<>>
  /\ runIndex' = 0
  /\ runPc' = IF TrialsEnabled /\ runConfig.runs > 0 THEN "claude" ELSE "fix"
  /\ UNCHANGED <<runConfig, manifest, caseIndex, runOutput>>
  /\ UNCHANGED <<matchVars, fnVars, scoreVars, serverVars>>

\* one iteration of the trial loop: runClaudeCase returns and its result is
\* pushed
ClaudeTrial ==
  /\ runPc = "claude" /\ runIndex < runConfig.runs
  /\ \E result \in GeneratorResultsFor(manifest[caseIndex + 1]) :
       /\ ~runClaudeCaseThrows(result, manifest[caseIndex + 1].expectedViolations)
       /\ invoked' = Append(invoked, result)
       /\ claudeResults' =
            Append(claudeResults,
                   caseRunResult(
                     runClaudeCase(result, manifest[caseIndex + 1].expectedViolations),
                     caseIndex + 1, runIndex))
  /\ runIndex' = runIndex + 1
  /\ runPc' = IF runIndex + 1 < runConfig.runs THEN "claude" ELSE "fix"
  /\ UNCHANGED <<runConfig, manifest, caseIndex, runOutput>>
  /\ UNCHANGED <<matchVars, fnVars, scoreVars, serverVars>>

\* one iteration of the trial loop: runClaudeCase raises; nothing catches
\* it, the process ends and the results file is not written
ClaudeTrialThrow ==
  /\ runPc = "claude" /\ runIndex < runConfig.runs
  /\ \E result \in GeneratorResultsFor(manifest[caseIndex + 1]) :
       /\ runClaudeCaseThrows(result, manifest[caseIndex + 1].expectedViolations)
       /\ invoked' = Append(invoked, result)
  /\ runPc' = "aborted"
  /\ UNCHANGED <<runConfig, manifest, caseIndex, runIndex, claudeResults,
                 runOutput>>
  /\ UNCHANGED <<matchVars, fnVars, scoreVars, serverVars>>

\* the rest of the iteration: the fix loops and results.cases[testCase.id]
FixPhase ==
  /\ runPc = "fix"
  /\ \E fa \in IF ~runConfig.flags.skipFix /\ ~runConfig.flags.mcpOnly
                   /\ Len(manifest[caseIndex + 1].expectedViolations) > 0
                THEN [1..runConfig.runs -> RunFixAttempts]
                ELSE {<<>>} :
       runOutput' =
         Append(runOutput,
                [runCase(manifest[caseIndex + 1], runConfig.flags, runConfig.runs,
                         invoked,
                         [i \in 1..Len(fa) |-> fa[i].hybrid],
                         [i \in 1..Len(fa) |-> fa[i].claude])
                   EXCEPT !.claude = claudeResults])
  /\ caseIndex' = caseIndex + 1
  /\ runPc' = "case"
  /\ UNCHANGED <<runConfig, manifest, runIndex, invoked, claudeResults>>
  /\ UNCHANGED <<matchVars, fnVars, scoreVars, serverVars>>

\* writeFileSync(outPath, JSON.stringify(results, null, 2))
WriteResults ==
  /\ runPc = "case" /\ caseIndex = Len(manifest)
  /\ runPc' = "written"
  /\ UNCHANGED <<runConfig, manifest, caseIndex, runIndex, invoked,
                 claudeResults, runOutput>>
  /\ UNCHANGED <<matchVars, fnVars, scoreVars, serverVars>>

NextRun ==
  StartCase \/ ClaudeTrial \/ ClaudeTrialThrow \/ FixPhase \/ WriteResults

SpecRun == InitRun /\ [][NextRun]_vars

\* the script has ended: results written, or an uncaught exception
RunEnded == runPc \in {"written", "aborted"}

\* the trials recorded so far have the run indices 0, 1, ... in order, and a
\* trial whose generator call failed carries its error tag and no defects
TrialsInOrder(trials, calls) ==
  /\ Len(trials) = Len(calls)
  /\ \A i \in 1..Len(trials) :
       /\ trials[i].runIndex = i - 1
       /\ calls[i].error # "" =>
            trials[i].error = calls[i].error /\ trials[i].raw = <<>>

\* every case of the manifest has its N trial results, indexed 0..N-1
AllTrialsRecorded ==
  /\ runPc = "written"
  /\ Len(runOutput) = Len(manifest)
  /\ \A c \in 1..Len(runOutput) :
       /\ Len(runOutput[c].claude) = runConfig.runs
       /\ \A i \in 1..runConfig.runs : runOutput[c].claude[i].runIndex = i - 1

\* C13: in a run that makes generator trials, every case gets exactly N trial
\* results (N = RUNS) with run indices 0..N-1 in order, whatever subset of
\* the trials fails: a failed trial is recorded with its error tag, and the
\* run goes on to the next trial and the next case, never ending before every
\* case is recorded.
C13_EveryTrialRecorded ==
  /\ runPc = "claude" => TrialsInOrder(claudeResults, invoked)
  /\ runPc # "aborted"
  /\ RunEnded /\ TrialsEnabled => AllTrialsRecorded

\* the same for the runs in which no trial raises
C13_RecordedUnlessRaised ==
  /\ runPc \in {"claude", "fix"} /\ TrialsEnabled
       => TrialsInOrder(claudeResults, invoked)
  /\ runPc = "written" /\ TrialsEnabled => AllTrialsRecorded

\* a run of two cases in which a trial of the first case timed out and the
\* second case still has all its trials
C13_WitnessFailedTrial ==
  /\ runPc = "written" /\ TrialsEnabled
  /\ Len(runOutput) = 2 /\ runConfig.runs = 2
  /\ runOutput[1].claude[1].error # "" /\ runOutput[1].claude[2].error = ""
  /\ Len(runOutput[2].claude) = 2


(***************************************************************************)
(* invokeClaude, parseResponse, extractViolations (bench/lib/claude.ts)    *)
(*                                                                         *)
(* A JSON value is a record [t, s, items, fields]: t is its type, s the    *)
(* characters of a string, items the elements of an array, fields the     *)
(* members of an object.  undefined is the value of a member that is not   *)
(* there.                                                                  *)
(***************************************************************************)
NoFields == [k \in {} |-> 0]

JUndefined == [t |-> "undefined", s |-> "", items |-> <<>>, fields |-> NoFields]

JNull == [t |-> "null", s |-> "", items |-> <<>>, fields |-> NoFields]

JNum == [t |-> "number", s |-> "", items |-> <<>>, fields |-> NoFields]

JStr(s) == [t |-> "string", s |-> s, items |-> <<>>, fields |-> NoFields]

JArr(items) == [t |-> "array", s |-> "", items |-> items, fields |-> NoFields]

JObj(fields) == [t |-> "object", s |-> "", items |-> <<>>, fields |-> fields]

\* j[key] for a j that is neither null nor undefined, and a key that no
\* string, number or array has
get(j, key) ==
  IF j.t = "object" /\ key \in DOMAIN j.fields THEN j.fields[key] ELSE JUndefined

\* j == null
IsNullish(j) == j.t \in {"null", "undefined"}

\* the conversion of j to a boolean
truthy(j) ==
  /\ ~IsNullish(j)
  /\ j.t = "string" => j.s # ""

\* the three backquotes of a code fence
Fence == Sub("```'", 1, 3)

OneDefect == <<CV("img", "missing alt", "1.1.1", "critical")>>

\* the texts JSON.parse is given in the samples, with the value it returns;
\* every other text is a SyntaxError
ParseTable ==
  "null" :> JNull
  @@ "7" :> JNum
  @@ "[]" :> JArr(<<>>)
  @@ "{\"violations\":[]}" :> JObj("violations" :> JArr(<<>>))
  @@ "{\"violations\":[{\"element\":\"img\",\"issue\":\"missing alt\",\"wcagCriterion\":\"1.1.1\",\"impact\":\"critical\"}]}"
       :> JObj("violations" :> JArr(OneDefect))
  @@ "{\"note\":{\"violations\":7}}"
       :> JObj("note" :> JObj("violations" :> JNum))
  @@ "{\"subtype\":\"success\",\"structured_output\":{\"violations\":[{\"element\":\"img\",\"issue\":\"missing alt\",\"wcagCriterion\":\"1.1.1\",\"impact\":\"critical\"}]}}"
       :> JObj("subtype" :> JStr("success")
               @@ "structured_output" :> JObj("violations" :> JArr(OneDefect)))
  @@ "{\"subtype\":\"success\",\"structured_output\":{\"violations\":[]}}"
       :> JObj("subtype" :> JStr("success")
               @@ "structured_output" :> JObj("violations" :> JArr(<<>>)))
  @@ "{\"subtype\":\"error_max_budget_usd\",\"structured_output\":{\"violations\":[{\"element\":\"img\",\"issue\":\"missing alt\",\"wcagCriterion\":\"1.1.1\",\"impact\":\"critical\"}]}}"
       :> JObj("subtype" :> JStr("error_max_budget_usd")
               @@ "structured_output" :> JObj("violations" :> JArr(OneDefect)))
  @@ "{\"subtype\":7,\"result\":\"[]\"}"
       :> JObj("subtype" :> JNum @@ "result" :> JStr("[]"))
  @@ "{\"modelUsage\":{\"sonnet\":null},\"result\":\"[]\"}"
       :> JObj("modelUsage" :> JObj("sonnet" :> JNull) @@ "result" :> JStr("[]"))
  @@ "{\"structured_output\":null,\"result\":\" {\\\"violations\\\":[]} \"}"
       :> JObj("structured_output" :> JNull
               @@ "result" :> JStr(" {\"violations\":[]} "))
  @@ ("{\"result\":\"" \o Fence \o "json\\n{\\\"violations\\\":[]}\\n" \o Fence \o "\"}")
       :> JObj("result" :> JStr(Fence \o "json\n{\"violations\":[]}\n" \o Fence))
  @@ "{\"result\":\"Found: {\\\"note\\\":{\\\"violations\\\":7}} and {\\\"violations\\\":[]}\"}"
       :> JObj("result" :> JStr("Found: {\"note\":{\"violations\":7}} and {\"violations\":[]}"))
  @@ "{\"result\":\"Result {\\\"violations\\\":[]} end\"}"
       :> JObj("result" :> JStr("Result {\"violations\":[]} end"))
  @@ "{\"result\":\"\",\"content\":7,\"output\":\"No issues found\"}"
       :> JObj("result" :> JStr("") @@ "content" :> JNum
               @@ "output" :> JStr("No issues found"))
  @@ "{\"result\":\"null\"}" :> JObj("result" :> JStr("null"))

\* JSON.parse(text) returns
JSONparses(text) == text \in DOMAIN ParseTable

JSONparse(text) == ParseTable[text]

\* s.indexOf(t, from - 1) + 1: the first place at or after from where t is,
\* or 0
RECURSIVE indexOfFrom(_, _, _)
indexOfFrom(s, t, from) ==
  IF from + Len(t) - 1 > Len(s) THEN 0
  ELSE IF Sub(s, from, from + Len(t) - 1) = t THEN from
  ELSE indexOfFrom(s, t, from + 1)

\* the first place at or after from that does not hold white space
RECURSIVE skipWhiteSpace(_, _)
skipWhiteSpace(s, from) ==
  IF from <= Len(s) /\ CharAt(s, from) \in WhiteSpace
  THEN skipWhiteSpace(s, from + 1) ELSE from

\* text.match(fence (?:json)?\s*\n?([\s\S]*?) fence): the match exists
fenceMatches(text) ==
  LET open == indexOfFrom(text, Fence, 1)
  IN open >= 1 /\ indexOfFrom(text, Fence, open + 3) >= 1

\* fenceMatch[1]
fenceGroup(text) ==
  LET open == indexOfFrom(text, Fence, 1)
      afterJson == IF Sub(text, open + 3, open + 6) = "json"
                   THEN open + 7 ELSE open + 3
      start == skipWhiteSpace(text, afterJson)
  IN Sub(text, start, indexOfFrom(text, Fence, start) - 1)

\* the loop that looks for the brace closing the one at braceStart: braceEnd
\* (a place of text), or 0 for -1
RECURSIVE braceEndFrom(_, _, _)
braceEndFrom(text, i, depth) ==
  IF i > Len(text) THEN 0
  ELSE IF CharAt(text, i) = "{" THEN braceEndFrom(text, i + 1, depth + 1)
  ELSE IF CharAt(text, i) = "}"
  THEN (IF depth - 1 = 0 THEN i ELSE braceEndFrom(text, i + 1, depth - 1))
  ELSE braceEndFrom(text, i + 1, depth)

\* what extractViolations returns: null, or an array
Null == [found |-> FALSE, violations |-> <<>>]

Found(violations) == [found |-> TRUE, violations |-> violations]

\* try { const parsed = JSON.parse(text); ... } catch {}: the array returned
\* from inside the block, or null when control leaves the block; arrayToo
\* tells whether the block has the statement for a top-level array
fromParsed(text, arrayToo) ==
  IF ~JSONparses(text) THEN Null
  ELSE IF IsNullish(JSONparse(text)) THEN Null
  ELSE IF get(JSONparse(text), "violations").t = "array"
  THEN Found(get(JSONparse(text), "violations").items)
  ELSE IF arrayToo /\ JSONparse(text).t = "array"
  THEN Found(JSONparse(text).items)
  ELSE Null

\* the last strategy of extractViolations: the first balanced { ... }
fromBraces(text) ==
  LET braceStart == indexOfFrom(text, "{", 1)
      braceEnd == braceEndFrom(text, braceStart, 0)
  IN IF braceStart >= 1 /\ braceEnd > braceStart
     THEN fromParsed(Sub(text, braceStart, braceEnd), FALSE)
     ELSE Null

\* the strategies of extractViolations for the trimmed text
fromText(text) ==
  IF fromParsed(text, TRUE).found THEN fromParsed(text, TRUE)
  ELSE IF fenceMatches(text) /\ fromParsed(trim(fenceGroup(text)), TRUE).found
  THEN fromParsed(trim(fenceGroup(text)), TRUE)
  ELSE fromBraces(text)

extractViolations(result) ==
  IF result.t \in {"object", "array"} /\ get(result, "violations").t = "array"
  THEN Found(get(result, "violations").items)
  ELSE IF result.t # "string" THEN Null
  ELSE fromText(trim(result.s))

\* extractTokenUsage raises a TypeError: the first entry of modelUsage is
\* null
extractTokenUsageThrows(envelope) ==
  LET modelUsage == get(envelope, "modelUsage")
  IN /\ modelUsage.t = "object"
     /\ \E k \in DOMAIN modelUsage.fields : IsNullish(modelUsage.fields[k])

\* an InvokeClaudeResult; error "" is the absent error
failed(durationMs, error) ==
  [parsed |-> <<>>, durationMs |-> durationMs, error |-> error]

EnvelopeFields == <<"structured_output", "result", "content", "output">>

\* the loop of parseResponse over the four members of the envelope, from the
\* k-th on, and the return statement after it
RECURSIVE fromEnvelope(_, _, _)
fromEnvelope(envelope, k, durationMs) ==
  IF k > Len(EnvelopeFields)
  THEN failed(durationMs, "Could not extract violations.")
  ELSE IF IsNullish(get(envelope, EnvelopeFields[k]))
  THEN fromEnvelope(envelope, k + 1, durationMs)
  ELSE IF extractViolations(get(envelope, EnvelopeFields[k])).found
  THEN [parsed |-> extractViolations(get(envelope, EnvelopeFields[k])).violations,
        durationMs |-> durationMs, error |-> ""]
  ELSE fromEnvelope(envelope, k + 1, durationMs)

\* the try block of parseResponse raises: JSON.parse, a member of null,
\* extractTokenUsage, or startsWith of a subtype that is not a string
parseRaises(stdout) ==
  \/ ~JSONparses(stdout)
  \/ IsNullish(JSONparse(stdout))
  \/ extractTokenUsageThrows(JSONparse(stdout))
  \/ /\ truthy(get(JSONparse(stdout), "subtype"))
     /\ get(JSONparse(stdout), "subtype").t # "string"

parseResponse_ErrorKeepsList(stdout, durationMs) ==
  IF parseRaises(stdout) THEN failed(durationMs, "Parse error")
  ELSE IF /\ truthy(get(JSONparse(stdout), "subtype"))
          /\ Sub(get(JSONparse(stdout), "subtype").s, 1, 5) = "error"
  THEN [fromEnvelope(JSONparse(stdout), 1, durationMs) EXCEPT
          !.error = "Claude error: " \o get(JSONparse(stdout), "subtype").s]
  ELSE fromEnvelope(JSONparse(stdout), 1, durationMs)

parseResponse(stdout, durationMs) ==
  IF parseRaises(stdout) THEN failed(durationMs, "Parse error")
  ELSE IF /\ truthy(get(JSONparse(stdout), "subtype"))
          /\ Sub(get(JSONparse(stdout), "subtype").s, 1, 5) = "error"
  THEN failed(durationMs, "Claude error: " \o get(JSONparse(stdout), "subtype").s)
  ELSE fromEnvelope(JSONparse(stdout), 1, durationMs)

\* what execFileSync does: it returns stdout, or throws an Error that has a
\* message and the stdout read so far
Exec(threw, stdout, message) ==
  [threw |-> threw, stdout |-> stdout, message |-> message]

invokeClaude(exec, timeout, durationMs) ==
  IF ~exec.threw THEN parseResponse(exec.stdout, durationMs)
  ELSE IF exec.stdout # "" THEN parseResponse(exec.stdout, durationMs)
  ELSE IF \/ includes(exec.message, "ETIMEDOUT")
          \/ includes(exec.message, "timed out")
          \/ includes(exec.message, "TIMEOUT")
  THEN failed(durationMs, "Timeout after " \o ToString(timeout) \o "ms")
  ELSE IF includes(exec.message, "429") \/ includes(exec.message, "rate limit")
  THEN failed(durationMs, "Rate limited")
  ELSE failed(durationMs, "Exec error: " \o exec.message)

\* what the generator writes to stdout: nothing, text that is not JSON, the
\* texts of ParseTable
StdoutSamples == {"", "Error: not logged in", "{\"subtype\":"} \cup DOMAIN ParseTable

\* the messages of the errors execFileSync throws
MessageSamples ==
  { "spawnSync claude ETIMEDOUT",
    "Command failed: claude -p\nAPI Error: 429",
    "Command failed: claude -p\nrate limit reached",
    "Command failed: claude -p",
    "spawnSync claude ENOENT" }

ExecSamples ==
  {Exec(FALSE, stdout, "") : stdout \in StdoutSamples}
    \cup {Exec(TRUE, stdout, message) :
            stdout \in StdoutSamples, message \in MessageSamples}

InitInvoke ==
  /\ MatchIdle
  /\ ServerIdle
  /\ ScoreIdle
  /\ RunIdle
  /\ fnName = "invokeClaude"
  /\ fnPc = "called"
  /\ fnArgs \in [exec : ExecSamples, timeout : {30000}, durationMs : {1500, 30001}]
  /\ fnRet = <<>>

CallInvokeClaude ==
  /\ fnName = "invokeClaude" /\ fnPc = "called"
  /\ fnRet' = invokeClaude(fnArgs.exec, fnArgs.timeout, fnArgs.durationMs)
  /\ fnPc' = "returned"
  /\ UNCHANGED <<fnName, fnArgs>>
  /\ UNCHANGED <<matchVars, scoreVars, runVars, serverVars>>

NextInvoke == CallInvokeClaude

SpecInvoke == InitInvoke /\ [][NextInvoke]_vars

\* the outcomes of the generator call
NormalExit == ~fnArgs.exec.threw

TimedOut == fnArgs.exec.threw /\ includes(fnArgs.exec.message, "ETIMEDOUT")

RateLimited ==
  fnArgs.exec.threw /\ fnArgs.exec.stdout = "" /\ includes(fnArgs.exec.message, "429")

\* the list the envelope on stdout holds in structured_output.violations
StructuredOutput ==
  get(get(JSONparse(fnArgs.exec.stdout), "structured_output"), "violations")

\* C14: for every outcome of the generator call (normal exit, non-zero
\* exit, timeout, rate limit, unparseable or unexpected output) invokeClaude
\* returns a result, and the result carries either an error tag and an empty
\* violation list, or no error tag and the list extracted from the output;
\* never an error tag with a non-empty list.  A call that ended without any
\* output always carries an error tag.
C14_ErrorOrList ==
  fnName = "invokeClaude" =>
    /\ fnPc \in {"called", "returned"}
    /\ fnPc = "returned" =>
         /\ fnRet.error # "" => fnRet.parsed = <<>>
         /\ fnRet.error = "" =>
              /\ JSONparses(fnArgs.exec.stdout)
              /\ fnRet.parsed \in {<<>>, OneDefect}
              /\ StructuredOutput.t = "array" => fnRet.parsed = StructuredOutput.items
         /\ (fnArgs.exec.stdout = "" \/ ~JSONparses(fnArgs.exec.stdout))
              => fnRet.error # ""
         /\ fnRet.durationMs = fnArgs.durationMs

\* the generator exited with a non-zero status after writing an envelope
\* that holds a defect: no error tag, the defect is in the list
C14_Witness ==
  /\ Returned("invokeClaude")
  /\ fnArgs.exec.threw /\ ~TimedOut
  /\ fnRet.error = "" /\ fnRet.parsed = OneDefect

\* a timeout without output: the error tag, no defects
C14_WitnessTimeout ==
  /\ Returned("invokeClaude")
  /\ TimedOut /\ fnArgs.exec.stdout = ""
  /\ fnRet.error = "Timeout after 30000ms" /\ fnRet.parsed = <<>>

\* an envelope with an error subtype that holds a defect: the error tag, no
\* defects
C14_WitnessErrorSubtype ==
  /\ Returned("invokeClaude")
  /\ NormalExit
  /\ fnRet.error = "Claude error: error_max_budget_usd" /\ fnRet.parsed = <<>>

\* the list found in the braces of a text answer
C14_WitnessBraces ==
  /\ Returned("invokeClaude")
  /\ NormalExit
  /\ fnArgs.exec.stdout = "{\"result\":\"Result {\\\"violations\\\":[]} end\"}"
  /\ fnRet.error = "" /\ fnRet.parsed = <<>>

\* the list found in a code fence of a text answer
C14_WitnessFence ==
  /\ Returned("invokeClaude")
  /\ includes(fnArgs.exec.stdout, Fence)
  /\ fnRet.error = "" /\ fnRet.parsed = <<>>

\* a text answer whose first balanced braces hold no list: the error tag
C14_WitnessNested ==
  /\ Returned("invokeClaude")
  /\ includes(fnArgs.exec.stdout, "Found: {")
  /\ fnRet.error = "Could not extract violations." /\ fnRet.parsed = <<>>


(***************************************************************************)
(* Ranges of the scores (checked under SpecScore and SpecPRF)              *)
(***************************************************************************)
\* 0 <= x <= 1
InUnit(x) == IsFinite(x) /\ ~less(x, Num(0)) /\ ~less(Num(1), x)

UnitPRF(r) == InUnit(r.precision) /\ InUnit(r.recall) /\ InUnit(r.f1)

\* C15: the precision, recall and F1 of every trial and of the detector,
\* every per-case mean over the trials and every dataset-level mean over the
\* cases lie in [0,1], whatever the number of trials and of cases, zero
\* included.
C15_ScoresInUnitInterval ==
  /\ \A c \in 1..Len(scores) :
       /\ UnitPRF(scores[c].mcp)
       /\ \A r \in 1..Len(scores[c].claude.runs) : UnitPRF(scores[c].claude.runs[r])
       /\ UnitPRF(scores[c].claude.mean)
  /\ aggregate.computed =>
       /\ InUnit(aggregate.aggMcpP) /\ InUnit(aggregate.aggMcpR)
       /\ InUnit(aggregate.aggMcpF1)
       /\ InUnit(aggregate.aggClaudeP) /\ InUnit(aggregate.aggClaudeR)
       /\ InUnit(aggregate.aggClaudeF1)

\* the same for computePRF on its own, for all counts up to MaxCount
C15_ComputePRFInUnitInterval ==
  Returned("computePRF") => UnitPRF(fnRet)

\* a dataset of two cases with two trials each whose means are strictly
\* between 0 and 1
C15_Witness ==
  /\ aggregate.computed /\ Len(scores) = 2
  /\ \A c \in 1..2 : Len(scores[c].claude.runs) = 2
  /\ less(Num(0), scores[1].claude.mean.f1) /\ less(scores[1].claude.mean.f1, Num(1))
  /\ less(Num(0), aggregate.aggClaudeF1) /\ less(aggregate.aggClaudeF1, Num(1))

\* no cases at all: every dataset-level mean is 0
C15_WitnessNoCases ==
  /\ aggregate.computed /\ Len(results) = 0
  /\ aggregate.aggMcpF1 = Num(0) /\ aggregate.aggClaudeF1 = Num(0)

\* a case without trials: its means are 0
C15_WitnessNoTrials ==
  /\ aggregate.computed /\ Len(scores) = 1
  /\ Len(scores[1].claude.runs) = 0
  /\ scores[1].claude.mean.f1 = Num(0)


(***************************************************************************)
(* mean and stddev over binary64 numbers (score.ts 29-38, render-score.ts  *)
(* 14-23), operation by operation, each result rounded to nearest, ties to *)
(* even.                                                                   *)
(*                                                                         *)
(* A natural number of any size is the sequence of its digits in base      *)
(* 2^15, least significant first, without leading zeros.  A binary64       *)
(* number is [sign, mant, exp]: (-1)^sign * mant * 2^exp with              *)
(* 2^52 <= mant < 2^53, or the empty mant for 0.  The exponents of the     *)
(* values met here are far from the ends of the binary64 range:            *)
(* subnormals, infinities and NaN do not arise.                            *)
(***************************************************************************)
Base == 32768

BaseBits == 15

Min(a, b) == IF a < b THEN a ELSE b

\* the element of a set of one element: Only({F(v) : v \in {e}}) is F(e), with
\* e evaluated before F is
Only(S) == CHOOSE x \in S : TRUE

RECURSIVE natOf(_)
natOf(n) == IF n = 0 THEN <<>> ELSE <<n % Base>> \o natOf(n \div Base)

RECURSIVE strip(_)
strip(a) ==
  IF a # <<>> /\ a[Len(a)] = 0 THEN strip(SubSeq(a, 1, Len(a) - 1)) ELSE a

digit0(a) == IF a = <<>> THEN 0 ELSE Head(a)

rest(a) == IF a = <<>> THEN <<>> ELSE Tail(a)

\* a + b + c
RECURSIVE addc(_, _, _)
addc(a, b, c) ==
  IF a = <<>> /\ b = <<>> THEN (IF c > 0 THEN <<c>> ELSE <<>>)
  ELSE <<(digit0(a) + digit0(b) + c) % Base>>
         \o addc(rest(a), rest(b), (digit0(a) + digit0(b) + c) \div Base)

natAdd(a, b) == addc(a, b, 0)

\* a - b - w, for a >= b + w
RECURSIVE subb(_, _, _)
subb(a, b, w) ==
  IF a = <<>> THEN <<>>
  ELSE <<(Head(a) - digit0(b) - w + Base) % Base>>
         \o subb(Tail(a), rest(b), IF Head(a) - digit0(b) - w < 0 THEN 1 ELSE 0)

natSub(a, b) == strip(subb(a, b, 0))

\* a < b
natLess(a, b) ==
  IF Len(a) # Len(b) THEN Len(a) < Len(b)
  ELSE \E i \in 1..Len(a) :
         a[i] < b[i] /\ \A j \in (i + 1)..Len(a) : a[j] = b[j]

\* a * k + c for a digit k
RECURSIVE mulSmall(_, _, _)
mulSmall(a, k, c) ==
  IF a = <<>> THEN (IF c > 0 THEN <<c>> ELSE <<>>)
  ELSE <<(Head(a) * k + c) % Base>>
         \o mulSmall(Tail(a), k, (Head(a) * k + c) \div Base)

\* a * Base
timesBase(a) == IF a = <<>> THEN <<>> ELSE <<0>> \o a

\* acc * Base^i + (the i lowest digits of a) * b
RECURSIVE mulAcc(_, _, _, _)
mulAcc(a, b, i, acc) ==
  IF i = 0 THEN acc
  ELSE Only({ mulAcc(a, b, i - 1, next) :
                next \in {natAdd(strip(mulSmall(b, a[i], 0)), timesBase(acc))} })

natMul(a, b) == mulAcc(a, b, Len(a), <<>>)

\* the digits of the quotient by d of r * Base^i + (the i lowest digits of
\* a), the most significant first, and then the remainder
RECURSIVE divDown(_, _, _, _)
divDown(a, i, r, d) ==
  IF i = 0 THEN <<r>>
  ELSE <<(r * Base + a[i]) \div d>> \o divDown(a, i - 1, (r * Base + a[i]) % d, d)

\* the n digits ds of a quotient, the least significant first, and the
\* remainder that follows them
quotRem(ds, n) ==
  [q |-> <<>> \o [i \in 1..n |-> ds[n + 1 - i]], r |-> ds[n + 1]]

\* quotient and remainder of a by d, 1 <= d <= 2^15
divSmall(a, d) == quotRem(divDown(a, Len(a), 0, d), Len(a))

\* the number of binary digits of the digit x
digitBits(x) == Cardinality({ k \in 0..(BaseBits - 1) : 2 ^ k <= x })

\* the number of binary digits of a
bitLen(a) ==
  IF a = <<>> THEN 0 ELSE BaseBits * (Len(a) - 1) + digitBits(a[Len(a)])

\* a * 2^k
shl(a, k) ==
  IF a = <<>> THEN <<>>
  ELSE [i \in 1..(k \div BaseBits) |-> 0] \o strip(mulSmall(a, 2 ^ (k % BaseBits), 0))

\* the quotient of a by 2^k, and whether the remainder is not 0
shrDigits(high, s) ==
  <<>> \o [i \in 1..Len(high) |->
            (high[i] \div 2 ^ s)
              + (IF i < Len(high) THEN (high[i + 1] % 2 ^ s) * 2 ^ (BaseBits - s) ELSE 0)]

shr(a, k) ==
  [q |-> strip(shrDigits(SubSeq(a, k \div BaseBits + 1, Len(a)), k % BaseBits)),
   lost |-> \/ k \div BaseBits < Len(a) /\ a[k \div BaseBits + 1] % 2 ^ (k % BaseBits) # 0
            \/ \E i \in 1..Min(k \div BaseBits, Len(a)) : a[i] # 0]

odd(a) == a # <<>> /\ a[1] % 2 = 1

Double(sign, mant, exp) == [sign |-> sign, mant |-> mant, exp |-> exp]

DZero == Double(0, <<>>, 0)

\* the 53 leading binary digits of m rounded to nearest, ties to even, for an
\* m of more than 53 binary digits: top is m without all but one of the
\* digits to drop; inexact tells that digits beyond m were lost
roundedTop(top, inexact) ==
  IF odd(top.q) /\ (top.lost \/ inexact \/ odd(shr(top.q, 1).q))
  THEN natAdd(shr(top.q, 1).q, <<1>>)
  ELSE shr(top.q, 1).q

roundedMant(m, inexact) == roundedTop(shr(m, bitLen(m) - 54), inexact)

\* the binary64 number nearest to (-1)^sign * m * 2^e
round64(sign, m, e, inexact) ==
  IF m = <<>> THEN DZero
  ELSE IF bitLen(m) <= 53
  THEN Double(sign, shl(m, 53 - bitLen(m)), e - (53 - bitLen(m)))
  ELSE IF bitLen(roundedMant(m, inexact)) = 54
  THEN Double(sign, shr(roundedMant(m, inexact), 1).q, e + bitLen(m) - 53 + 1)
  ELSE Double(sign, roundedMant(m, inexact), e + bitLen(m) - 53)

\* the digits of x at the scale 2^e, e <= x.exp
scaled(x, e) == shl(x.mant, x.exp - e)

\* x + y for nonzero x and y, given their digits at a common scale
addScaled(x, y, mx, my, e) ==
  IF x.sign = y.sign THEN round64(x.sign, natAdd(mx, my), e, FALSE)
  ELSE IF mx = my THEN DZero
  ELSE IF natLess(mx, my) THEN round64(y.sign, natSub(my, mx), e, FALSE)
  ELSE round64(x.sign, natSub(mx, my), e, FALSE)

\* x + y
dadd(x, y) ==
  IF x.mant = <<>> THEN y
  ELSE IF y.mant = <<>> THEN x
  ELSE addScaled(x, y, scaled(x, Min(x.exp, y.exp)), scaled(y, Min(x.exp, y.exp)),
                 Min(x.exp, y.exp))

\* x - y
dsub(x, y) == dadd(x, Double(1 - y.sign, y.mant, y.exp))

\* x * y, and x ** 2 as x * x
dmul(x, y) ==
  IF x.mant = <<>> \/ y.mant = <<>> THEN DZero
  ELSE round64((x.sign + y.sign) % 2, strip(natMul(x.mant, y.mant)),
               x.exp + y.exp, FALSE)

\* the rounding of the quotient qr of x.mant * 2^30 by n
quotient64(x, qr) == round64(x.sign, strip(qr.q), x.exp - 30, qr.r # 0)

\* x / n for an integer n in 1..2^15
ddivInt(x, n) ==
  IF x.mant = <<>> THEN DZero ELSE quotient64(x, divSmall(shl(x.mant, 30), n))

\* the number n
dOfInt(n) == round64(0, natOf(n), 0, FALSE)

\* arr.reduce((a, b) => a + b, acc)
RECURSIVE sumDouble(_, _)
sumDouble(arr, acc) ==
  IF arr = <<>> THEN acc
  ELSE Only({ sumDouble(Tail(arr), a) : a \in {dadd(acc, Head(arr))} })

\* mean, over binary64 numbers
meanDouble(arr) ==
  IF Len(arr) = 0 THEN DZero ELSE ddivInt(sumDouble(arr, DZero), Len(arr))

\* arr.reduce((sum, v) => sum + (v - m) ** 2, acc)
RECURSIVE sumSquaresDouble(_, _, _)
sumSquaresDouble(arr, m, acc) ==
  IF arr = <<>> THEN acc
  ELSE Only({ sumSquaresDouble(Tail(arr), m, dadd(acc, dmul(d, d))) :
                d \in {dsub(Head(arr), m)} })

stddevDouble_Sample(arr) ==
  IF Len(arr) <= 1 THEN sqrtOf(DZero)
  ELSE Only({ sqrtOf(ddivInt(sumSquaresDouble(arr, m, DZero), Len(arr) - 1)) :
                m \in {meanDouble(arr)} })

\* stddev, over binary64 numbers; Math.sqrt(x) is [radicand |-> x], which is
\* 0 exactly when x is
stddevDouble(arr) ==
  IF Len(arr) <= 1 THEN sqrtOf(DZero)
  ELSE Only({ sqrtOf(ddivInt(sumSquaresDouble(arr, m, DZero), Len(arr))) :
                m \in {meanDouble(arr)} })


(***************************************************************************)
(* stddev as a function of its argument (SpecStddev)                       *)
(***************************************************************************)
MaxValues == 3

\* the quotient a / b of two counts, as computePRF computes a precision or a
\* recall
ratio(a, b) == ddivInt(dOfInt(a), b)

\* the fractions n / d the values of a list are quotients of
FractionSamples == {<<0, 1>>, <<1, 1>>, <<1, 2>>, <<1, 5>>}

valuesOf(fractions) ==
  [i \in 1..Len(fractions) |-> ratio(fractions[i][1], fractions[i][2])]

InitStddev ==
  /\ MatchIdle
  /\ ServerIdle
  /\ ScoreIdle
  /\ RunIdle
  /\ fnName = "stddev"
  /\ fnPc = "called"
  /\ fnArgs \in [fractions : SeqsUpTo(FractionSamples, MaxValues)]
  /\ fnRet = <<>>

CallStddev ==
  /\ fnName = "stddev" /\ fnPc = "called"
  /\ fnRet' = stddevDouble(valuesOf(fnArgs.fractions))
  /\ fnPc' = "returned"
  /\ UNCHANGED <<fnName, fnArgs>>
  /\ UNCHANGED <<matchVars, scoreVars, runVars, serverVars>>

NextStddev == CallStddev

SpecStddev == InitStddev /\ [][NextStddev]_vars

\* | x - q | <= 2^-40, for a binary64 number x >= 0 with x.exp <= 0 and a
\* rational q >= 0: with K = max(-x.exp, 40),
\* | x.mant * q[2] * 2^(x.exp + K) - q[1] * 2^K | <= q[2] * 2^(K - 40)
Within(a, b, t) ==
  IF natLess(a, b) THEN ~natLess(t, natSub(b, a)) ELSE ~natLess(t, natSub(a, b))

CloseTo(x, q) ==
  LET K == IF -x.exp > 40 THEN -x.exp ELSE 40
  IN Within(shl(natMul(x.mant, natOf(q[2])), x.exp + K),
            shl(natOf(q[1]), K),
            shl(natOf(q[2]), K - 40))

\* x < 2^-100, for a binary64 number x >= 0
Residue(x) == x.mant = <<>> \/ x.exp + 53 <= -100

\* the fractions as exact rationals
exactOf(fractions) ==
  [i \in 1..Len(fractions) |-> Norm(fractions[i][1], fractions[i][2])]

\* the sum of the squared deviations from the mean, divided by n
PopulationVariance(vals) == over(sumSquares(vals, mean(vals)), Num(Len(vals)))

AllEqual(arr) == \A i, j \in 1..Len(arr) : arr[i] = arr[j]

C16_WitnessResidue ==
  /\ Returned("stddev")
  /\ fnArgs.fractions = <<<<1, 5>>, <<1, 5>>, <<1, 5>>>>
  /\ fnRet.radicand # DZero
  /\ meanDouble(valuesOf(fnArgs.fractions)) # ratio(1, 5)


(***************************************************************************)
(* The consistency report of the scoring script (SpecConsistency)          *)
(***************************************************************************)
MaxTrials == 3

\* the number of the multiples lo + i * step of step, i in 1..7, with
\* c * (lo + i * step) <= a
stepsOf(a, c, lo, step) ==
  Cardinality({ i \in 1..7 : ~natLess(a, strip(mulSmall(c, lo + i * step, 0))) })

\* the largest digit d in lo..(lo + 8 * step - 1) with c * d <= a, for
\* c * lo <= a and step a power of 8 (lo itself for step = 0)
RECURSIVE digitOf(_, _, _, _)
digitOf(a, c, lo, step) ==
  IF step = 0 THEN lo
  ELSE Only({ digitOf(a, c, next, step \div 8) :
                next \in {lo + stepsOf(a, c, lo, step) * step} })

\* the division so far with one more digit d of the quotient, the digit of
\* the multiple c of the divisor
withDigit(sofar, c, d) ==
  [q |-> <<d>> \o sofar.q, r |-> natSub(sofar.r, strip(mulSmall(c, d, 0)))]

\* one step of the long division: the next digit, of the multiple c
longDivStep(sofar, c) ==
  Only({ withDigit(sofar, c, d) : d \in {digitOf(sofar.r, c, 0, Base \div 8)} })

\* the long division by b with j more digits to find, for b > 0 and
\* sofar.r < b * Base^j: the digits of the quotient and the remainder
RECURSIVE longDiv(_, _, _)
longDiv(sofar, b, j) ==
  IF j = 0 THEN sofar
  ELSE Only({ longDiv(next, b, j - 1) :
                next \in {longDivStep(sofar, shl(b, BaseBits * (j - 1)))} })

\* the rounding of the quotient qr of x.mant * 2^60 by y.mant
quotientOf(x, y, qr) ==
  round64((x.sign + y.sign) % 2, strip(qr.q), x.exp - y.exp - 60, qr.r # <<>>)

\* x / y for y # 0
ddiv(x, y) ==
  IF x.mant = <<>> THEN DZero
  ELSE quotientOf(x, y, longDiv([q |-> <<>>, r |-> shl(x.mant, 60)], y.mant, 5))

\* (2 * precision * recall) / (precision + recall), or 0 (score.ts 25)
f1Quotient(product, total) ==
  IF total.mant # <<>> THEN ddiv(product, total) ELSE DZero

f1Double(precision, recall) ==
  Only({ f1Quotient(product, total) :
           product \in {dmul(dmul(dOfInt(2), precision), recall)},
           total \in {dadd(precision, recall)} })

\* computePRF (score.ts 20-27) over binary64 numbers
computePRFDouble(ctp, cfp, cfn) ==
  IF ctp = 0 /\ cfp = 0 /\ cfn = 0
  THEN [precision |-> dOfInt(1), recall |-> dOfInt(1), f1 |-> dOfInt(1)]
  ELSE Only({ [precision |-> precision, recall |-> recall,
                f1 |-> f1Double(precision, recall)] :
                precision \in {IF ctp + cfp > 0 THEN ratio(ctp, ctp + cfp) ELSE DZero},
                recall \in {IF ctp + cfn > 0 THEN ratio(ctp, ctp + cfn) ELSE DZero} })

\* a * 2^ea < b * 2^eb
scaledLess(a, ea, b, eb) ==
  natLess(shl(a, ea - Min(ea, eb)), shl(b, eb - Min(ea, eb)))

\* the odd number m with m * 2^(c.exp - 1) half way between c and the next
\* binary64 number
halfWayUp(c) == natAdd(shl(c.mant, 1), <<1>>)

\* s > c for s = [radicand |-> v] with v >= 0 and a binary64 number c > 0:
\* Math.sqrt rounds to nearest, so that s > c exactly when the root of v is
\* above the point half way between c and the next number (it is never at
\* that point, whose square has too many digits to be a binary64 number)
sqrtGreater(s, c) ==
  /\ s.radicand.mant # <<>>
  /\ scaledLess(natMul(halfWayUp(c), halfWayUp(c)), 2 * (c.exp - 1),
                s.radicand.mant, s.radicand.exp)

\* the number literal 0.1 (score.ts 292)
Tenth == ratio(1, 10)

\* the claude part of a CaseScore, as far as the report reads it
\* (score.ts 114-125 and 138-139)
claudeScoreDouble(runs) ==
  [runs |-> runs,
   stddev |-> [f1 |-> stddevDouble([i \in 1..Len(runs) |-> runs[i].f1])]]

\* the trials of a case scored (score.ts 82-112)
RECURSIVE runsDouble(_)
runsDouble(trials) ==
  IF trials = <<>> THEN <<>>
  ELSE <<computePRFDouble(Head(trials).tp, Head(trials).fp, Head(trials).fn)>>
       \o runsDouble(Tail(trials))

\* the cases of the consistency report (score.ts 146 and 290-293)
inconsistent(ss) ==
  IF \E i \in 1..Len(ss) : Len(ss[i].claude.runs) > 0
  THEN SelectSeq(ss, LAMBDA sc : /\ Len(sc.claude.runs) > 1
                                 /\ sqrtGreater(sc.claude.stddev.f1, Tenth))
  ELSE <<>>

\* the counts tp, fp, fn of a trial
Counts(ctp, cfp, cfn) == [tp |-> ctp, fp |-> cfp, fn |-> cfn]

\* the numbers of expected defects of the sample cases
ExpectedCounts == {0, 2, 3}

\* counts of the trials of a case with n expected defects (tp + fn = n), with
\* their F1 values: 1 and 0; 1, 4/5, 1/2, 0 and 2/3; 1, 4/5 and 3/5
CountSamples(n) ==
  IF n = 0 THEN { Counts(0, 0, 0), Counts(0, 1, 0) }
  ELSE IF n = 2
  THEN { Counts(2, 0, 0), Counts(2, 1, 0), Counts(1, 1, 1), Counts(0, 0, 2),
         Counts(1, 0, 1) }
  ELSE { Counts(3, 0, 0), Counts(2, 0, 1), Counts(3, 4, 0) }

InitConsistency ==
  /\ MatchIdle
  /\ ServerIdle
  /\ ScoreIdle
  /\ RunIdle
  /\ fnName = "inconsistent"
  /\ fnPc = "called"
  /\ fnArgs \in UNION { [expected : {n}, trials : SeqsUpTo(CountSamples(n), MaxTrials)] :
                         n \in ExpectedCounts }
  /\ fnRet = <<>>

\* the report for a file of one case with these trials
ReportInconsistent ==
  /\ fnName = "inconsistent" /\ fnPc = "called"
  /\ fnRet' = inconsistent(<<[caseId |-> 1,
                              claude |-> claudeScoreDouble(runsDouble(fnArgs.trials))]>>)
  /\ fnPc' = "returned"
  /\ UNCHANGED <<fnName, fnArgs>>
  /\ UNCHANGED <<matchVars, scoreVars, runVars, serverVars>>

NextConsistency == ReportInconsistent

SpecConsistency == InitConsistency /\ [][NextConsistency]_vars

\* the exact F1 values of the trials
exactF1s(trials) ==
  [i \in 1..Len(trials) |-> computePRF(trials[i].tp, trials[i].fp, trials[i].fn).f1]

Flagged == Len(fnRet) = 1

\* C17, as stated: a case is reported as inconsistent exactly when it has at
\* least 2 trials and the population standard deviation of its per-trial F1
\* values is greater than 0.1 (the variance greater than 1/100); a case with a
\* single trial is never flagged, and a case whose two trials have the F1
\* values 1 and 1/2 is flagged.
C17_FlaggedExactlyAboveTenth ==
  Returned("inconsistent") =>
    /\ Flagged <=>
         /\ Len(fnArgs.trials) >= 2
         /\ less(Norm(1, 100), PopulationVariance(exactF1s(fnArgs.trials)))
    /\ Len(fnArgs.trials) = 1 => ~Flagged
    /\ exactF1s(fnArgs.trials) = <<Num(1), Norm(1, 2)>> => Flagged

\* what holds of the report: a case with at least 2 trials whose population
\* standard deviation of the per-trial F1 values is greater than 0.1 is
\* reported, and a reported case has at least 2 trials and a standard
\* deviation of at least 0.1; a case with a single trial is never flagged, and
\* a case whose two trials have the F1 values 1 and 1/2 is flagged.
FlaggedFromTenth ==
  Returned("inconsistent") =>
    /\ ( /\ Len(fnArgs.trials) >= 2
         /\ less(Norm(1, 100), PopulationVariance(exactF1s(fnArgs.trials))) )
         => Flagged
    /\ Flagged =>
         /\ Len(fnArgs.trials) >= 2
         /\ ~less(PopulationVariance(exactF1s(fnArgs.trials)), Norm(1, 100))
    /\ Len(fnArgs.trials) = 1 => ~Flagged
    /\ exactF1s(fnArgs.trials) = <<Num(1), Norm(1, 2)>> => Flagged

\* two trials with the F1 values 1 and 1/2, flagged
FlaggedHalfApart ==
  /\ Returned("inconsistent")
  /\ fnArgs.trials = <<Counts(2, 0, 0), Counts(1, 1, 1)>>
  /\ exactF1s(fnArgs.trials) = <<Num(1), Norm(1, 2)>>
  /\ Flagged

\* two trials with the F1 values 4/5 and 3/5: the standard deviation is 0.1
\* and the case is flagged
FlaggedAtTenth ==
  /\ Returned("inconsistent")
  /\ fnArgs.trials = <<Counts(2, 0, 1), Counts(3, 4, 0)>>
  /\ PopulationVariance(exactF1s(fnArgs.trials)) = Norm(1, 100)
  /\ Flagged

\* a single trial, not flagged
SingleTrialNotFlagged ==
  /\ Returned("inconsistent")
  /\ Len(fnArgs.trials) = 1
  /\ ~Flagged


(***************************************************************************)
(* The dataset-level figures (checked under SpecScore)                     *)
(***************************************************************************)
\* the arithmetic mean of a list of numbers, 0 for the empty list
Average(arr) == IF Len(arr) = 0 THEN Num(0) ELSE over(sum(arr), Num(Len(arr)))

\* the mean over its trials of a figure of scored case c
CaseMean(c, figure) ==
  Average([j \in 1..Len(scores[c].claude.runs) |-> scores[c].claude.runs[j][figure]])

\* the mean over the cases of the per-case means of a figure
MeanOfMeans(figure) == Average([c \in 1..Len(scores) |-> CaseMean(c, figure)])

\* the mean of a figure over the trials of all cases
PooledMean(figure) ==
  Average([j \in 1..Len(allRuns(scores)) |-> allRuns(scores)[j][figure]])

\* C18: the dataset-level precision, recall and F1 are the unweighted mean over
\* the cases of each case's own mean over its trials (for the detector, of its
\* one figure per case), not a mean pooled over all trials: every case weighs
\* the same whatever its number of trials.
C18_MeanOfCaseMeans ==
  aggregate.computed =>
    /\ aggregate.aggClaudeP = MeanOfMeans("precision")
    /\ aggregate.aggClaudeR = MeanOfMeans("recall")
    /\ aggregate.aggClaudeF1 = MeanOfMeans("f1")
    /\ aggregate.aggMcpP = Average([c \in 1..Len(scores) |-> scores[c].mcp.precision])
    /\ aggregate.aggMcpR = Average([c \in 1..Len(scores) |-> scores[c].mcp.recall])
    /\ aggregate.aggMcpF1 = Average([c \in 1..Len(scores) |-> scores[c].mcp.f1])

\* two cases with different numbers of trials, for which the pooled mean of
\* F1 is another number than the dataset-level F1
C18_Witness ==
  /\ aggregate.computed /\ Len(scores) = 2
  /\ Len(scores[1].claude.runs) = 1 /\ Len(scores[2].claude.runs) = 2
  /\ aggregate.aggClaudeF1 # PooledMean("f1")
  /\ aggregate.aggClaudeF1
       = over(plus(scores[1].claude.mean.f1, scores[2].claude.mean.f1), Num(2))


(***************************************************************************)
(* elementMatchScore as a function of its arguments (SpecElement)          *)
(***************************************************************************)
\* element descriptors of reports: the generator's output schema admits any
\* string
ElementSamples ==
  { "", " ", "IMG", " img ", "img.hero", "img[alt]", "a[href=y][alt=x]",
    "input[type=text]", "P:nth-of-type(2) > b", "form > button", "button" }

\* selector patterns of expected defects
PatternSamples ==
  { "", "img", "img[alt=x][href]", "img[alt]", "div:nth-of-type(2)",
    "input[type=email]", "button", "p:nth-of-type(2) > b", "select[name]" }

InitElement ==
  /\ MatchIdle
  /\ ServerIdle
  /\ ScoreIdle
  /\ RunIdle
  /\ fnName = "elementMatchScore"
  /\ fnPc = "called"
  /\ fnArgs \in [claudeElement : ElementSamples, selectorPattern : PatternSamples]
  /\ fnRet = <<>>

CallElementMatchScore ==
  /\ fnName = "elementMatchScore" /\ fnPc = "called"
  /\ fnRet' = elementMatchScore(fnArgs.claudeElement, fnArgs.selectorPattern)
  /\ fnPc' = "returned"
  /\ UNCHANGED <<fnName, fnArgs>>
  /\ UNCHANGED <<matchVars, scoreVars, runVars, serverVars>>

NextElement == CallElementMatchScore

SpecElement == InitElement /\ [][NextElement]_vars

\* the descriptors lower-cased and trimmed
Lowered(s) == trim(toLowerCase(s))

\* t occurs in s
Contains(s, t) == \E i \in 0..Len(s) : i + Len(t) <= Len(s) /\ Sub(s, i + 1, i + Len(t)) = t

\* the pairs of attribute tokens of the two descriptors
TokenPairs(ce, sp) == (1..Len(attrTokens(ce))) \X (1..Len(attrTokens(sp)))

\* the name of an attribute token: what precedes its first "="
TokenName(t) ==
  IF \E i \in 1..Len(t) : CharAt(t, i) = "="
  THEN Sub(t, 1, (CHOOSE i \in 1..Len(t) :
                    CharAt(t, i) = "=" /\ \A j \in 1..(i - 1) : CharAt(t, j) # "=") - 1)
  ELSE t

\* +3 for equal leading tag names, +3 for each pair of identical attribute
\* tokens, +1 for each pair of tokens that share only the name, +2 for
\* identical nth-of-type indices
Points(ce, sp) ==
  (IF tagName(ce) # "" /\ tagName(ce) = tagName(sp) THEN 3 ELSE 0)
  + 3 * Cardinality({p \in TokenPairs(ce, sp) :
                       attrTokens(ce)[p[1]] = attrTokens(sp)[p[2]]})
  + Cardinality({p \in TokenPairs(ce, sp) :
                   /\ attrTokens(ce)[p[1]] # attrTokens(sp)[p[2]]
                   /\ TokenName(attrTokens(ce)[p[1]]) = TokenName(attrTokens(sp)[p[2]])})
  + (IF nthIndex(ce) # "" /\ nthIndex(ce) = nthIndex(sp) THEN 2 ELSE 0)

\* 10 for equal descriptors, 7 when one contains the other, the points
\* otherwise
ScoreOf(ce, sp) ==
  IF ce = sp THEN 10
  ELSE IF Contains(ce, sp) \/ Contains(sp, ce) THEN 7
  ELSE Points(ce, sp)

\* C19, as stated: elementMatchScore compares the two descriptors after
\* lower-casing and trimming and returns 10 whenever they are then equal, 7
\* whenever they are not equal but one contains the other, and otherwise the
\* sum of +3 for equal leading tag names, +3 for each pair of identical
\* bracketed attribute tokens, +1 for each pair of tokens that share only the
\* name before "=", and +2 for identical nth-of-type indices; the result is
\* never negative.
C19_ScoreOfLowered ==
  Returned("elementMatchScore") =>
    /\ fnRet = ScoreOf(Lowered(fnArgs.claudeElement), Lowered(fnArgs.selectorPattern))
    /\ fnRet >= 0

\* C19, amended: elementMatchScore returns 0 when one of the two descriptors
\* is the empty string; otherwise it compares them after lower-casing and
\* trimming and returns 10 when they are then equal, 7 when they are not
\* equal but one contains the other, and otherwise the sum of the points; the
\* result is never negative.
C19_ScoreOfLoweredUnlessEmpty ==
  Returned("elementMatchScore") =>
    /\ fnArgs.claudeElement = "" \/ fnArgs.selectorPattern = "" => fnRet = 0
    /\ fnArgs.claudeElement # "" /\ fnArgs.selectorPattern # "" =>
         fnRet = ScoreOf(Lowered(fnArgs.claudeElement), Lowered(fnArgs.selectorPattern))
    /\ fnRet >= 0

\* descriptors that differ, neither containing the other, with one pair of
\* identical tokens and one pair sharing the name: 3 + 1
C19_Witness ==
  /\ Returned("elementMatchScore")
  /\ fnArgs.claudeElement = "a[href=y][alt=x]"
  /\ fnArgs.selectorPattern = "img[alt=x][href]"
  /\ fnRet = 4

\* equal after lower-casing and trimming: 10
C19_WitnessEqual ==
  /\ Returned("elementMatchScore")
  /\ fnArgs.claudeElement = "IMG" /\ fnArgs.selectorPattern = "img"
  /\ fnRet = 10

\* the pattern contains the trimmed element: 7
C19_WitnessContained ==
  /\ Returned("elementMatchScore")
  /\ fnArgs.claudeElement = " img " /\ fnArgs.selectorPattern = "img[alt]"
  /\ fnRet = 7

\* an empty element descriptor: 0, although every pattern contains it
C19_WitnessEmpty ==
  /\ Returned("elementMatchScore")
  /\ fnArgs.claudeElement = "" /\ fnArgs.selectorPattern = "img"
  /\ fnRet = 0


(***************************************************************************)
(* getCandidateRuleIds as a function of its argument (SpecCandidates)      *)
(***************************************************************************)
\* criterion tags of reports: the generator's output schema admits any string
CriterionSamples ==
  { "", "1.1.1", "SC 1.1.1", "sc4.1.2 ", " 1.3.1", "Sc  2.4.4", "1.4.3", "9.9.9",
    "WCAG 1.1.1", "constructor", "SC toString" }

IssueSamples ==
  { "", "missing alt", "Image is missing alt text",
    "Button has no name, image has no alt",
    "Low contrast text", "Element looks odd", "Form input has no label",
    "Link text is empty", "svg without title", "MISSING ALT ATTRIBUTE" }

InitCandidates ==
  /\ MatchIdle
  /\ ServerIdle
  /\ ScoreIdle
  /\ RunIdle
  /\ fnName = "getCandidateRuleIds"
  /\ fnPc = "called"
  /\ fnArgs \in [violation : { CV("img", issue, criterion, "serious") :
                                 issue \in IssueSamples,
                                 criterion \in CriterionSamples }]
  /\ fnRet = <<>>

CallGetCandidateRuleIds ==
  /\ fnName = "getCandidateRuleIds" /\ fnPc = "called"
  /\ ~getCandidateRuleIdsThrows(fnArgs.violation)
  /\ fnRet' = getCandidateRuleIds(fnArgs.violation)
  /\ fnPc' = "returned"
  /\ UNCHANGED <<fnName, fnArgs>>
  /\ UNCHANGED <<matchVars, scoreVars, runVars, serverVars>>

\* the TypeError of line 145 leaves the function
GetCandidateRuleIdsThrow ==
  /\ fnName = "getCandidateRuleIds" /\ fnPc = "called"
  /\ getCandidateRuleIdsThrows(fnArgs.violation)
  /\ fnPc' = "thrown"
  /\ UNCHANGED <<fnName, fnArgs, fnRet>>
  /\ UNCHANGED <<matchVars, scoreVars, runVars, serverVars>>

NextCandidates == CallGetCandidateRuleIds \/ GetCandidateRuleIdsThrow

SpecCandidates == InitCandidates /\ [][NextCandidates]_vars

\* the criterion tag without a leading SC or sc and trimmed
Criterion(tag) == trim(stripScPrefix(tag))

\* (a) the rule ids the table lists for the criterion
TableRuleIds(tag) ==
  IF Criterion(tag) \in DOMAIN WCAG_TO_RULES
  THEN Range(WCAG_TO_RULES[Criterion(tag)]) ELSE {}

\* (b) the rule ids of the patterns that match the issue text
KeywordRuleIds(issue) ==
  { KEYWORD_PATTERNS[i].ruleId :
      i \in {j \in 1..Len(KEYWORD_PATTERNS) : patternTest(KEYWORD_PATTERNS[j].pattern, issue)} }

UnionOfSignals ==
  /\ Range(fnRet) = TableRuleIds(fnArgs.violation.wcagCriterion)
                      \cup KeywordRuleIds(fnArgs.violation.issue)
  /\ Cardinality(Range(fnRet)) = Len(fnRet)

\* C20: getCandidateRuleIds returns, without duplicates, exactly the union of
\* (a) the rule ids the table lists for the criterion after stripping a
\* leading SC/sc prefix and trimming, and (b) the rule id of every keyword
\* pattern that matches the issue text, for every report: both signals always
\* contribute, and every matching pattern contributes.
C20_ReturnsUnionOfSignals ==
  fnName = "getCandidateRuleIds" =>
    /\ fnPc # "thrown"
    /\ fnPc = "returned" => UnionOfSignals

\* the same for the calls that return
C20_ReturnedUnionOfSignals ==
  Returned("getCandidateRuleIds") => UnionOfSignals

\* a criterion the table lists and an issue text that matches patterns of
\* several rule ids, one of them also listed for the criterion
C20_WitnessBothSignals ==
  /\ Returned("getCandidateRuleIds")
  /\ TableRuleIds(fnArgs.violation.wcagCriterion) # {}
  /\ Cardinality(KeywordRuleIds(fnArgs.violation.issue)) >= 2
  /\ TableRuleIds(fnArgs.violation.wcagCriterion)
       \cap KeywordRuleIds(fnArgs.violation.issue) # {}
  /\ ~(KeywordRuleIds(fnArgs.violation.issue)
         \subseteq TableRuleIds(fnArgs.violation.wcagCriterion))

\* a criterion that names a member of Object.prototype: the call raises
C20_WitnessThrown ==
  /\ fnName = "getCandidateRuleIds" /\ fnPc = "thrown"
  /\ fnArgs.violation.wcagCriterion = "SC toString"
  /\ TableRuleIds(fnArgs.violation.wcagCriterion) = {}


(***************************************************************************)
(* filterByImpact and formatDiff (src/lib/format.ts 6-25 and 138-181)      *)
(*                                                                         *)
(* A value read from IMPACT_ORDER is [type, value]: the number of an own   *)
(* key, the member of Object.prototype an inherited key names (a function  *)
(* or an object), or undefined.  An absent options.minImpact is "".        *)
(***************************************************************************)
MaxItems == 3

MaxDiffItems == 1

NumberValue(n) == [type |-> "number", value |-> n]

\* IMPACT_ORDER[key] (format.ts 6-11)
IMPACT_ORDER(key) ==
  CASE key = "critical" -> NumberValue(0)
    [] key = "serious" -> NumberValue(1)
    [] key = "moderate" -> NumberValue(2)
    [] key = "minor" -> NumberValue(3)
    [] key \in ObjectPrototypeKeys -> [type |-> "object", value |-> 0]
    [] OTHER -> [type |-> "undefined", value |-> 0]

\* x ?? 4
orFour(x) == IF x.type = "undefined" THEN NumberValue(4) ELSE x

\* x <= y: a function, an object and undefined convert to NaN, and a
\* comparison with NaN is false
lessOrEqual(x, y) == x.type = "number" /\ y.type = "number" /\ x.value <= y.value

\* the filter with < for <=
filterByImpact_Above(items, minImpact) ==
  SelectSeq(items, LAMBDA item :
    /\ lessOrEqual(orFour(IMPACT_ORDER(item.impact)), IMPACT_ORDER(minImpact))
    /\ orFour(IMPACT_ORDER(item.impact)) # IMPACT_ORDER(minImpact))

\* filterByImpact (format.ts 19-25)
filterByImpact(items, minImpact) ==
  SelectSeq(items, LAMBDA item :
    lessOrEqual(orFour(IMPACT_ORDER(item.impact)), IMPACT_ORDER(minImpact)))

UpperOf(c) ==
  IF \E u \in DOMAIN LowerOf : LowerOf[u] = c
  THEN CHOOSE u \in DOMAIN LowerOf : LowerOf[u] = c
  ELSE c

RECURSIVE toUpperCase(_)
toUpperCase(s) ==
  IF s = "" THEN "" ELSE UpperOf(Head(s)) \o toUpperCase(Tail(s))

\* lines.join("\n")
RECURSIVE join(_)
join(lines) ==
  IF lines = <<>> THEN ""
  ELSE IF Len(lines) = 1 THEN lines[1]
  ELSE lines[1] \o "\n" \o join(Tail(lines))

\* the browserHint of the rule getRuleById finds, "" when the rule has none
\* or there is no such rule
browserHintOf(ruleId) ==
  IF ruleId = "color-contrast" THEN "Check the contrast in the browser" ELSE ""

\* formatFixSuggestion (format.ts 56-75), for the kinds of fix of the samples;
\* the dash of line 73 is written -
formatFixSuggestion(fix) ==
  CASE fix.type = "remove-attribute" -> "remove-attribute " \o fix.attribute
    [] fix.type = "remove-element" -> "remove-element"
    [] OTHER -> "fix - " \o fix.type

\* the line of a violation in the lists of a diff (format.ts 152, 161, 176)
diffLine(v) ==
  "  - [" \o toUpperCase(v.impact) \o "] " \o v.ruleId \o " at " \o v.selector

\* the lines of one violation under NEW (format.ts 159-169); fix.type "" is
\* no fix
addedLines(v) ==
  <<diffLine(v), "    " \o v.message>>
    \o (IF v.fix.type # "" THEN <<"    Fix: " \o formatFixSuggestion(v.fix)>> ELSE <<>>)
    \o (IF browserHintOf(v.ruleId) # ""
        THEN <<"    Browser hint: " \o browserHintOf(v.ruleId)>> ELSE <<>>)

RECURSIVE flatten(_)
flatten(lists) ==
  IF lists = <<>> THEN <<>> ELSE Head(lists) \o flatten(Tail(lists))

\* a section of the diff: nothing for an empty list (format.ts 148-178)
section(title, lines) ==
  IF lines = <<>> THEN <<>> ELSE <<"", title>> \o lines

\* lines 144-180, for the three lists to show
diffText(fixed, added, unchanged) ==
  join(<<"Summary: " \o ToString(Len(fixed)) \o " fixed, " \o ToString(Len(added))
           \o " new, " \o ToString(Len(unchanged)) \o " remaining">>
       \o section("FIXED:", [i \in 1..Len(fixed) |-> diffLine(fixed[i])])
       \o section("NEW:", flatten([i \in 1..Len(added) |-> addedLines(added[i])]))
       \o section("REMAINING:", [i \in 1..Len(unchanged) |-> diffLine(unchanged[i])]))

\* formatDiff that shows every remaining violation
formatDiff_AllRemaining(diff, minImpact) ==
  diffText(IF minImpact # "" THEN filterByImpact(diff.fixed, minImpact) ELSE diff.fixed,
           IF minImpact # "" THEN filterByImpact(diff.added, minImpact) ELSE diff.added,
           diff.unchanged)

\* formatDiff (format.ts 138-181)
formatDiff(diff, minImpact) ==
  diffText(IF minImpact # "" THEN filterByImpact(diff.fixed, minImpact) ELSE diff.fixed,
           IF minImpact # "" THEN filterByImpact(diff.added, minImpact) ELSE diff.added,
           IF minImpact # "" THEN filterByImpact(diff.unchanged, minImpact)
           ELSE diff.unchanged)

\* the scale of impacts, the most severe first
ImpactScale == <<"critical", "serious", "moderate", "minor">>

NoFix == [type |-> "", attribute |-> ""]

Violation(ruleId, impact, selector, fix) ==
  [ruleId |-> ruleId, impact |-> impact, selector |-> selector,
   message |-> "Rule " \o ruleId \o " failed", fix |-> fix]

\* violations of every impact of the scale and of impacts that are not on it
ViolationSamples ==
  { Violation("img-alt", "critical", "img", NoFix),
    Violation("label", "serious", "input", NoFix),
    Violation("color-contrast", "moderate", "p", NoFix),
    Violation("tabindex", "minor", "div", [type |-> "remove-attribute", attribute |-> "tabindex"]),
    Violation("region", "info", "main", NoFix),
    Violation("custom", "constructor", "a", NoFix) }

DiffSamples ==
  { v \in ViolationSamples : v.impact \in {"serious", "moderate", "minor", "constructor"} }

InitFormat ==
  /\ MatchIdle
  /\ ServerIdle
  /\ ScoreIdle
  /\ RunIdle
  /\ fnPc = "called"
  /\ fnRet = <<>>
  /\ \/ /\ fnName = "filterByImpact"
        /\ fnArgs \in [items : SeqsUpTo(ViolationSamples, MaxItems),
                       minImpact : Range(ImpactScale)]
     \/ /\ fnName = "formatDiff"
        /\ fnArgs \in [fixed : SeqsUpTo(DiffSamples, MaxDiffItems),
                       added : SeqsUpTo(DiffSamples, MaxDiffItems),
                       unchanged : SeqsUpTo(DiffSamples, MaxDiffItems),
                       minImpact : Range(ImpactScale) \cup {""}]

CallFilterByImpact ==
  /\ fnName = "filterByImpact" /\ fnPc = "called"
  /\ fnRet' = filterByImpact(fnArgs.items, fnArgs.minImpact)
  /\ fnPc' = "returned"
  /\ UNCHANGED <<fnName, fnArgs>>
  /\ UNCHANGED <<matchVars, scoreVars, runVars, serverVars>>

CallFormatDiff ==
  /\ fnName = "formatDiff" /\ fnPc = "called"
  /\ fnRet' = formatDiff(fnArgs, fnArgs.minImpact)
  /\ fnPc' = "returned"
  /\ UNCHANGED <<fnName, fnArgs>>
  /\ UNCHANGED <<matchVars, scoreVars, runVars, serverVars>>

NextFormat == CallFilterByImpact \/ CallFormatDiff

SpecFormat == InitFormat /\ [][NextFormat]_vars

\* impact is on the scale, at the level min or more severe
AtOrAbove(impact, min) ==
  \E i, j \in 1..Len(ImpactScale) :
    ImpactScale[i] = impact /\ ImpactScale[j] = min /\ i <= j

\* the items of a list at the level min or more severe, in their order
Kept(items, min) == SelectSeq(items, LAMBDA item : AtOrAbove(item.impact, min))

\* C21: for every list of violations and every min_impact, filterByImpact
\* returns exactly the items whose impact is at that level or more severe on
\* the scale critical > serious > moderate > minor, in their original order;
\* an item whose impact is not on the scale is never returned; and the text
\* of formatDiff with a min_impact is the text of the diff whose fixed, new and
\* remaining lists are filtered in that way.
C21_KeepsAtOrAbove ==
  /\ Returned("filterByImpact") =>
       /\ fnRet = Kept(fnArgs.items, fnArgs.minImpact)
       /\ \A i \in 1..Len(fnRet) : fnRet[i].impact \in Range(ImpactScale)
  /\ Returned("formatDiff") /\ fnArgs.minImpact # "" =>
       fnRet = diffText(Kept(fnArgs.fixed, fnArgs.minImpact),
                        Kept(fnArgs.added, fnArgs.minImpact),
                        Kept(fnArgs.unchanged, fnArgs.minImpact))

\* a list with an item below the level, items at and above it and an item
\* that is not on the scale: two items are returned, in their order
C21_Witness ==
  /\ Returned("filterByImpact")
  /\ fnArgs.minImpact = "serious"
  /\ Len(fnArgs.items) = 3
  /\ fnArgs.items[1].impact = "serious"
  /\ fnArgs.items[2].impact = "constructor"
  /\ fnArgs.items[3].impact = "critical"
  /\ fnRet = <<fnArgs.items[1], fnArgs.items[3]>>

\* a diff whose remaining violation is below the level and whose new one is
\* at it: the text lists the new one only
C21_WitnessDiff ==
  /\ Returned("formatDiff")
  /\ fnArgs.minImpact = "serious"
  /\ Len(fnArgs.fixed) = 0
  /\ Len(fnArgs.added) = 1 /\ fnArgs.added[1].impact = "serious"
  /\ Len(fnArgs.unchanged) = 1 /\ fnArgs.unchanged[1].impact = "moderate"
  /\ fnRet = "Summary: 0 fixed, 1 new, 0 remaining\n\nNEW:\n  - [SERIOUS] label at input\n    Rule label failed"


(***************************************************************************)
(* The impact bonus of matchClaudeViolations (matching.ts 203-208 and      *)
(* 247-256) as a function of the two impacts (SpecBonus)                   *)
(***************************************************************************)
\* impacts of the scale, and impacts that are not on it
ImpactSamples ==
  Range(ImpactScale) \cup {"info", "", "constructor", "toString"}

InitBonus ==
  /\ MatchIdle
  /\ ServerIdle
  /\ ScoreIdle
  /\ RunIdle
  /\ fnName = "impactBonus"
  /\ fnPc = "called"
  /\ fnArgs \in [reported : ImpactSamples, expected : ImpactSamples]
  /\ fnRet = <<>>

CallImpactBonus ==
  /\ fnName = "impactBonus" /\ fnPc = "called"
  /\ fnRet' = impactBonus(fnArgs.reported, fnArgs.expected)
  /\ fnPc' = "returned"
  /\ UNCHANGED <<fnName, fnArgs>>
  /\ UNCHANGED <<matchVars, scoreVars, runVars, serverVars>>

NextBonus == CallImpactBonus

SpecBonus == InitBonus /\ [][NextBonus]_vars

\* the position of an impact on the scale
ScalePosition(impact) == CHOOSE i \in 1..Len(ImpactScale) : ImpactScale[i] = impact

\* C24: for every reported impact and expected impact on the scale
\* critical > serious > moderate > minor, the impact bonus is 2 when the two
\* impacts are equal, 1 when they are adjacent on the scale, and 0 otherwise.
C24_BonusByDistance ==
  /\ Returned("impactBonus")
  /\ fnArgs.reported \in Range(ImpactScale)
  /\ fnArgs.expected \in Range(ImpactScale)
  => fnRet = (CASE fnArgs.reported = fnArgs.expected -> 2
                [] Abs(ScalePosition(fnArgs.reported) - ScalePosition(fnArgs.expected)) = 1 -> 1
                [] OTHER -> 0)

\* critical against serious, adjacent: 1
C24_Witness ==
  /\ Returned("impactBonus")
  /\ fnArgs.reported = "critical"
  /\ fnArgs.expected = "serious"
  /\ fnRet = 1

\* critical against moderate, two apart: 0
C24_WitnessApart ==
  /\ Returned("impactBonus")
  /\ fnArgs.reported = "critical"
  /\ fnArgs.expected = "moderate"
  /\ fnRet = 0


(***************************************************************************)
(* compareViolationSets (bench/lib/render.ts 23-56)                        *)
(*                                                                         *)
(* A Map is the sequence of its entries [key, count] in insertion order.   *)
(***************************************************************************)
MaxPrints == 3

\* toKey (render.ts 27)
toKey(v) == v.ruleId \o "|" \o v.impact

\* counts.get(key) ?? 0
countOf(counts, key) ==
  IF \E i \in 1..Len(counts) : counts[i].key = key
  THEN counts[CHOOSE i \in 1..Len(counts) : counts[i].key = key].count
  ELSE 0

\* counts.set(key, n): a key that is present keeps its place
setCount(counts, key, n) ==
  IF \E i \in 1..Len(counts) : counts[i].key = key
  THEN [i \in 1..Len(counts) |->
          IF counts[i].key = key THEN [key |-> key, count |-> n] ELSE counts[i]]
  ELSE Append(counts, [key |-> key, count |-> n])

\* the loops of lines 31-34 and 38-41 from the i-th element on
RECURSIVE countKeys(_, _, _, _)
countKeys(list, KeyOf(_), i, counts) ==
  IF i > Len(list) THEN counts
  ELSE countKeys(list, KeyOf, i + 1,
                 setCount(counts, KeyOf(list[i]), countOf(counts, KeyOf(list[i])) + 1))

\* new Set([...gtCounts.keys(), ...claudeCounts.keys()]) (line 45)
allKeysOf(gtCounts, claudeCounts) ==
  addAll(<<>>, [i \in 1..Len(gtCounts) |-> gtCounts[i].key]
                 \o [i \in 1..Len(claudeCounts) |-> claudeCounts[i].key])

\* the loop of lines 46-50 from the i-th key on
RECURSIVE sumOfMins(_, _, _, _)
sumOfMins(keys, gtCounts, claudeCounts, i) ==
  IF i > Len(keys) THEN 0
  ELSE Min(countOf(gtCounts, keys[i]), countOf(claudeCounts, keys[i]))
         + sumOfMins(keys, gtCounts, claudeCounts, i + 1)

\* lines 43-55
comparison(groundTruth, claude, gtCounts, claudeCounts) ==
  [matched |-> sumOfMins(allKeysOf(gtCounts, claudeCounts), gtCounts, claudeCounts, 1),
   missing |-> Len(groundTruth)
                 - sumOfMins(allKeysOf(gtCounts, claudeCounts), gtCounts, claudeCounts, 1),
   extra |-> Len(claude)
               - sumOfMins(allKeysOf(gtCounts, claudeCounts), gtCounts, claudeCounts, 1)]

\* the rule id alone as the key
ruleKey(v) == v.ruleId

compareViolationSets_ByRule(groundTruth, claude) ==
  comparison(groundTruth, claude,
             countKeys(groundTruth, ruleKey, 1, <<>>), countKeys(claude, ruleKey, 1, <<>>))

\* compareViolationSets (render.ts 23-56)
compareViolationSets(groundTruth, claude) ==
  comparison(groundTruth, claude,
             countKeys(groundTruth, toKey, 1, <<>>), countKeys(claude, toKey, 1, <<>>))

\* what extractFingerprints keeps of a violation of an audit (render.ts 11-17)
Fingerprint(ruleId, impact) == [ruleId |-> ruleId, impact |-> impact]

\* two fingerprints of one rule with different impacts, and one of another
\* rule
FingerprintSamples ==
  { Fingerprint("text-alternatives/img-alt", "critical"),
    Fingerprint("text-alternatives/img-alt", "serious"),
    Fingerprint("labels-and-names/label", "critical") }

InitCompare ==
  /\ MatchIdle
  /\ ServerIdle
  /\ ScoreIdle
  /\ RunIdle
  /\ fnName = "compareViolationSets"
  /\ fnPc = "called"
  /\ fnArgs \in [groundTruth : SeqsUpTo(FingerprintSamples, MaxPrints),
                 claude : SeqsUpTo(FingerprintSamples, MaxPrints)]
  /\ fnRet = <<>>

CallCompareViolationSets ==
  /\ fnName = "compareViolationSets" /\ fnPc = "called"
  /\ fnRet' = compareViolationSets(fnArgs.groundTruth, fnArgs.claude)
  /\ fnPc' = "returned"
  /\ UNCHANGED <<fnName, fnArgs>>
  /\ UNCHANGED <<matchVars, scoreVars, runVars, serverVars>>

NextCompare == CallCompareViolationSets

SpecCompare == InitCompare /\ [][NextCompare]_vars

\* the number of the elements of a list with this rule id and impact
Occurrences(list, p) == Cardinality({ i \in 1..Len(list) : list[i] = p })

\* the sum over the pairs of P of the smaller of their numbers in a and b
RECURSIVE SumOfSmaller(_, _, _)
SumOfSmaller(P, a, b) ==
  IF P = {} THEN 0
  ELSE LET p == CHOOSE q \in P : TRUE
       IN Min(Occurrences(a, p), Occurrences(b, p)) + SumOfSmaller(P \ {p}, a, b)

Reversed(list) == [i \in 1..Len(list) |-> list[Len(list) + 1 - i]]

\* C25: compareViolationSets returns matched = the sum over the (ruleId,
\* impact) pairs of min(count in the ground truth, count in the other list),
\* missing = size of the ground truth - matched and extra = size of the other
\* list - matched, so matched + missing and matched + extra are the two
\* sizes; the result is a function of the counts, the same for the lists in
\* another order.
C25_MultisetMatch ==
  Returned("compareViolationSets") =>
    /\ fnRet.matched = SumOfSmaller(Range(fnArgs.groundTruth) \cup Range(fnArgs.claude),
                                    fnArgs.groundTruth, fnArgs.claude)
    /\ fnRet.matched + fnRet.missing = Len(fnArgs.groundTruth)
    /\ fnRet.matched + fnRet.extra = Len(fnArgs.claude)
    /\ fnRet.missing >= 0 /\ fnRet.extra >= 0
    /\ fnRet = compareViolationSets(Reversed(fnArgs.groundTruth), fnArgs.claude)
    /\ fnRet = compareViolationSets(fnArgs.groundTruth, Reversed(fnArgs.claude))

\* the ground truth has a rule twice with one impact and once with another;
\* the other list has it once with the first impact, and another rule: one
\* matched, two missing, one extra
C25_Witness ==
  /\ Returned("compareViolationSets")
  /\ fnArgs.groundTruth = << Fingerprint("text-alternatives/img-alt", "critical"),
                             Fingerprint("text-alternatives/img-alt", "serious"),
                             Fingerprint("text-alternatives/img-alt", "critical") >>
  /\ fnArgs.claude = << Fingerprint("labels-and-names/label", "critical"),
                        Fingerprint("text-alternatives/img-alt", "critical") >>
  /\ fnRet = [matched |-> 1, missing |-> 2, extra |-> 1]


C26_WitnessMatched ==
  /\ Done("matchClaudeViolations")
  /\ alreadyMatched # {}
  /\ Len(claudeViolations) >= 2
  /\ Len(expectedViolations) >= 1


(***************************************************************************)
(* Scoring a written run again (run.ts writes raw with                     *)
(* claudeToRawViolations, score.ts 96-104 rebuilds the reports from raw    *)
(* and matches them against the same expected defects)                     *)
(***************************************************************************)
\* what the run and the later scoring compute for one trial: the match of
\* the run (matching.ts 295), the raw list written out, and the match of
\* score.ts 104 over the rebuilt reports
rescore(violations, expected) ==
  LET raw == claudeToRawViolations(violations, expected)
  IN [first |-> matchClaudeViolations(violations, expected),
      raw |-> raw,
      rebuilt |-> reconstruct(raw),
      second |-> matchClaudeViolations(reconstruct(raw), expected)]

InitRescore ==
  /\ MatchIdle
  /\ ServerIdle
  /\ ScoreIdle
  /\ RunIdle
  /\ fnName = "rescore"
  /\ fnPc = "called"
  /\ fnArgs \in [violations : SeqsUpTo(ReportedSamples, MaxReported),
                 expected : SeqsUpTo(ExpectedSamples, MaxExpected)]
  /\ fnRet = <<>>

CallRescore ==
  /\ fnName = "rescore" /\ fnPc = "called"
  /\ ~claudeToRawViolationsThrows(fnArgs.violations, fnArgs.expected)
  /\ fnRet' = rescore(fnArgs.violations, fnArgs.expected)
  /\ fnPc' = "returned"
  /\ UNCHANGED <<fnName, fnArgs>>
  /\ UNCHANGED <<matchVars, scoreVars, runVars, serverVars>>

\* the TypeError of getCandidateRuleIds leaves the run before raw is written
RescoreThrow ==
  /\ fnName = "rescore" /\ fnPc = "called"
  /\ claudeToRawViolationsThrows(fnArgs.violations, fnArgs.expected)
  /\ fnPc' = "thrown"
  /\ UNCHANGED <<fnName, fnArgs, fnRet>>
  /\ UNCHANGED <<matchVars, scoreVars, runVars, serverVars>>

NextRescore == CallRescore \/ RescoreThrow

SpecRescore == InitRescore /\ [][NextRescore]_vars

\* the matched pairs of a match result mr over the reports in list, each as
\* the position of the expected defect and the content of the report
pairsOf(mr, list) ==
  [i \in 1..Len(mr.matched) |->
     [expected |-> mr.matched[i].expected,
      claudeViolation |-> list[mr.matched[i].claudeViolation]]]

\* C23: when a reported list has been matched, written out by
\* claudeToRawViolations, rebuilt and matched again against the same expected
\* list, the second match has the same tp, fp and fn as the first and the
\* same matched pairs (the same reports paired with the same expected
\* defects, in the same order)
C23_RescoreStable ==
  Returned("rescore") =>
    /\ fnRet.second.tp = fnRet.first.tp
    /\ fnRet.second.fp = fnRet.first.fp
    /\ fnRet.second.fn = fnRet.first.fn
    /\ fnRet.second.missed = fnRet.first.missed
    /\ pairsOf(fnRet.second, fnRet.rebuilt)
         = pairsOf(fnRet.first, fnArgs.violations)

\* a false positive reported before a matched defect: the written order
\* differs from the reported order
C23_Witness ==
  /\ Returned("rescore")
  /\ fnRet.first.tp >= 1 /\ fnRet.first.fp >= 1
  /\ fnRet.first.falsePositives[1] < fnRet.first.matched[1].claudeViolation
  /\ fnRet.rebuilt # fnArgs.violations

\* a report that is a false positive only because an earlier report took the
\* expected defect it would otherwise match
C23_WitnessTaken ==
  /\ Returned("rescore")
  /\ fnRet.first.fp >= 1
  /\ \E f \in 1..Len(fnRet.first.falsePositives) :
       bestIdxFor(fnArgs.violations[fnRet.first.falsePositives[f]],
                  fnArgs.expected, {}) >= 1


(***************************************************************************)
(* The MCP server: the audit store of state.js (format.ts 237-285),        *)
(* parseHtml (parse.ts) and the tools audit_html, audit_file, audit_url    *)
(* and diff_html                                                           *)
(*                                                                         *)
(* An optional argument is a sequence of at most one value: <<>> when it   *)
(* is absent, <<v>> when it is v.  The rule engine is known by what        *)
(* configureRules last set and by the AuditResult objects runAudit         *)
(* returns; a result records the document audited, the component mode the  *)
(* engine had while it ran and which object it is (results are distinct    *)
(* objects, numbered in the order of their creation).  A tool handler runs *)
(* to its first await, or to its return, without interleaving: audit_html  *)
(* and diff_html have no await, audit_url and audit_file have one (fetch   *)
(* with response.text(), readFile), so each of these is one step to        *)
(* receive the call and one to finish it.                                  *)
(***************************************************************************)
None == <<>>

Some(v) == <<v>>

\* const MAX_STORED_AUDITS = 10 (format.ts 241)
MAX_STORED_AUDITS == 10

\* FULL_DOC_PATTERN.test(s), /<!doctype\s+html|<html[\s>]/i (parse.ts 8)
FULL_DOC_PATTERN(s) ==
  LET low == toLowerCase(s)
  IN \E i \in 1..Len(low) :
       \/ /\ Sub(low, i, i + 8) = "<!doctype"
          /\ \E n \in 1..Len(low) :
               /\ \A k \in 1..n : CharAt(low, i + 8 + k) \in WhiteSpace
               /\ Sub(low, i + 9 + n, i + 12 + n) = "html"
       \/ /\ Sub(low, i, i + 4) = "<html"
          /\ CharAt(low, i + 5) \in WhiteSpace \cup {">"}

\* parseHtml (parse.ts 46-61); the document is known by the text written to it
parseHtml(html) ==
  LET trimmed == trim(html)
      isFragment == ~FULL_DOC_PATTERN(trimmed)
  IN [document |->
        IF isFragment
        THEN "<!DOCTYPE html><html lang=\"en\"><head><title>Audit</title></head><body>"
               \o trimmed \o "</body></html>"
        ELSE trimmed,
      isFragment |-> isFragment]

\* HTML the tools are given: a full document, a fragment, a padded document
\* in upper case, and a fragment whose only html tag ends with the white
\* space that trim removes
HtmlSamples ==
  { "<!DOCTYPE html><html><body><p>Hi</p></body></html>",
    "<p>Hello world</p>",
    " <HTML>\n<p>Hi</p>\n",
    "<p>Hi</p><html " }

parseTable == [h \in HtmlSamples |-> parseHtml(h)]

parsed(html) ==
  IF html \in DOMAIN parseTable THEN parseTable[html] ELSE parseHtml(html)

\* runAudit(document) under the engine's options: componentMode is off
\* unless configureRules has turned it on
runAudit(document, options, serial) ==
  [document |-> document,
   componentMode |-> (options # None /\ options[1]),
   id |-> serial]

\* the keys of the Map, in insertion order
keys(store) == [i \in 1..Len(store) |-> store[i].name]

\* storedAudits.has(name)
has(store, name) == \E i \in 1..Len(store) : store[i].name = name

\* storedAudits.delete(name)
delete(store, name) == SelectSeq(store, LAMBDA e : e.name # name)

\* Map.prototype.set with the entry of a present key left where it is
mapSet_KeepExisting(store, name, result) ==
  IF has(store, name) THEN store
  ELSE Append(store, [name |-> name, result |-> result])

\* storedAudits.set(name, result) (format.ts 276): the value of a present key
\* is replaced in place, a new key is appended
mapSet(store, name, result) ==
  IF has(store, name)
  THEN [i \in 1..Len(store) |->
          IF store[i].name = name THEN [name |-> name, result |-> result]
          ELSE store[i]]
  ELSE Append(store, [name |-> name, result |-> result])

\* the eviction left out
evictOldest_Never(store, name) == store

\* format.ts 270-275: at capacity, and for a name that is not stored, the
\* first key of the Map is deleted
evictOldest(store, name) ==
  IF Len(store) >= MAX_STORED_AUDITS /\ ~has(store, name)
  THEN IF Len(store) >= 1 THEN delete(store, keys(store)[1]) ELSE store
  ELSE store

\* storeAudit (format.ts 268-277)
storeAudit(store, name, result) ==
  mapSet(evictOldest(store, name), name, result)

\* getStoredAudit (format.ts 279-281): <<>> for undefined
getStoredAudit(store, name) ==
  IF has(store, name)
  THEN Some((CHOOSE e \in Range(store) : e.name = name).result)
  ELSE None

\* if (options?.name): an absent name and "" are falsy
named(options) == options.name # None /\ options.name[1] # ""

\* the server's state.js and rule engine as one record
Server(store, options, count, log) ==
  [storedAudits |-> store, ruleOptions |-> options, created |-> count,
   storeLog |-> log]

\* configureRules called only for an explicit componentMode
configuredMode_KeepCurrent(current, options, isFragment) ==
  IF options.componentMode # None THEN Some(options.componentMode[1])
  ELSE current

\* format.ts 255-256: what configureRules sets, options?.componentMode ??
\* isFragment
configuredMode(current, options, isFragment) ==
  Some(IF options.componentMode # None THEN options.componentMode[1]
       ELSE isFragment)

\* format.ts 261-265: the server after the audit, and the result returned
auditDone(s, options, isFragment, configured, result) ==
  [server |->
     Server(IF named(options)
            THEN storeAudit(s.storedAudits, options.name[1], result)
            ELSE s.storedAudits,
            configured, s.created + 1,
            IF named(options)
            THEN Append(s.storeLog,
                        [name |-> options.name[1], result |-> result])
            ELSE s.storeLog),
   isFragment |-> isFragment,
   result |-> result]

\* format.ts 258-259: clearAllCaches and runAudit under what was configured
auditWith(s, options, p, configured) ==
  auditDone(s, options, p.isFragment, configured,
            runAudit(p.document, configured, s.created + 1))

\* audit (format.ts 248-266): the server afterwards and the result
audit(s, html, options) ==
  auditWith(s, options, parsed(html),
            configuredMode(s.ruleOptions, options, parsed(html).isFragment))

\* clearStoredAudits (format.ts 283-285)
clearStoredAudits(s) ==
  Server(<<>>, s.ruleOptions, s.created, s.storeLog)

\* no options, no result: what a call that ran no audit leaves in its record
NoOptions == [componentMode |-> None, name |-> None]

NoResult == [document |-> "", componentMode |-> FALSE, id |-> 0]

\* what a handler did from its last await to its return: the server
\* afterwards, the response and, for the history, the audit it ran
Outcome(server, isError, audited, options, isFragment, result, beforeResult) ==
  [server |-> server, isError |-> isError, audited |-> audited,
   options |-> options, isFragment |-> isFragment, result |-> result,
   beforeResult |-> beforeResult]

\* a handler's return with what audit(html, options) gave
outcomeOf(a, options, beforeResult) ==
  Outcome(a.server, FALSE, TRUE, options, a.isFragment, a.result, beforeResult)

\* a handler's return around its call of audit(html, options)
auditReturn(s, html, options, beforeResult) ==
  outcomeOf(audit(s, html, options), options, beforeResult)

\* a handler's error return
errorReturn(s) == Outcome(s, TRUE, FALSE, NoOptions, FALSE, NoResult, None)

\* audit_html (audit-html.ts 56-61)
auditHtml(s, html, component_mode, name) ==
  auditReturn(s, html, [componentMode |-> component_mode, name |-> name], None)

\* an error return after an audit has run
errorAfter(after) ==
  Outcome(after.server, TRUE, TRUE, after.options, after.isFragment,
          after.result, None)

\* diff_html with the new HTML audited before the stored audit is looked up
diffHtml_AuditFirst(s, html, before, component_mode) ==
  IF getStoredAudit(s.storedAudits, before) = None
  THEN errorAfter(auditReturn(s, html,
                              [componentMode |-> component_mode, name |-> None],
                              None))
  ELSE auditReturn(s, html, [componentMode |-> component_mode, name |-> None],
                   getStoredAudit(s.storedAudits, before))

\* diff_html (diff-html.ts 23-42): an AuditResult is an object and truthy, so
\* !beforeResult holds exactly for undefined
diffHtml(s, html, before, component_mode) ==
  IF getStoredAudit(s.storedAudits, before) = None THEN errorReturn(s)
  ELSE auditReturn(s, html, [componentMode |-> component_mode, name |-> None],
               getStoredAudit(s.storedAudits, before))

\* component_mode ?? false (audit-url.ts 67)
orFalse(component_mode) ==
  IF component_mode = None THEN Some(FALSE) ELSE component_mode

\* audit_url after response.text() (audit-url.ts 65-79)
auditUrl(s, html, component_mode, name) ==
  auditReturn(s, html, [componentMode |-> orFalse(component_mode), name |-> name],
          None)

\* audit_file after readFile (audit-file.ts 41-44)
auditFile(s, html, component_mode, name) ==
  auditReturn(s, html, [componentMode |-> component_mode, name |-> name], None)

\* names the store is filled with before the calls that are explored
StoredNames == <<"a", "b", "c", "d", "e", "f", "g", "h", "i", "j">>

\* name arguments: absent, empty, the first name stored, a name not stored
NameSamples == {None, Some(""), Some("a"), Some("k")}

BeforeSamples == {"", "a", "k"}

ModeSamples == {None, Some(TRUE), Some(FALSE)}

\* tool calls received in a run, beyond those that filled the store
MaxCalls == 2

\* the server after audit_html({html: "<p>Hello world</p>", name}) for the
\* first n of StoredNames, in order
RECURSIVE serverAfter(_, _, _)
serverAfter(s, i, n) ==
  IF i > n THEN s
  ELSE Only({ serverAfter(next, i + 1, n) :
              next \in {auditHtml(s, "<p>Hello world</p>", None,
                                  Some(StoredNames[i])).server} })

Started == Server(<<>>, None, 0, <<>>)

\* an empty store, a store one short of its capacity, a full store
Filled ==
  [n \in {0, MAX_STORED_AUDITS - 1, MAX_STORED_AUDITS} |->
     serverAfter(Started, 1, n)]

Current == Server(storedAudits, ruleOptions, created, storeLog)

\* a tool call as received
Call(tool, html, component_mode, name, before) ==
  [id |-> received + 1, tool |-> tool, html |-> html,
   component_mode |-> component_mode, name |-> name, before |-> before,
   configuredAtStart |-> ruleOptions]

NoCall ==
  [id |-> 0, tool |-> "", html |-> "", component_mode |-> None, name |-> None,
   before |-> "", configuredAtStart |-> None, isError |-> FALSE,
   audited |-> FALSE, options |-> NoOptions, isFragment |-> FALSE,
   result |-> NoResult, beforeResult |-> None, storedBefore |-> <<>>,
   logBefore |-> <<>>, configuredBefore |-> None, createdBefore |-> 0]

\* the handler of call c returns with outcome out
Return(c, out) ==
  /\ storedAudits' = out.server.storedAudits
  /\ ruleOptions' = out.server.ruleOptions
  /\ created' = out.server.created
  /\ storeLog' = out.server.storeLog
  /\ lastCall' =
       [id |-> c.id, tool |-> c.tool, html |-> c.html,
        component_mode |-> c.component_mode, name |-> c.name,
        before |-> c.before, configuredAtStart |-> c.configuredAtStart,
        isError |-> out.isError, audited |-> out.audited,
        options |-> out.options, isFragment |-> out.isFragment,
        result |-> out.result, beforeResult |-> out.beforeResult,
        storedBefore |-> storedAudits, logBefore |-> storeLog,
        configuredBefore |-> ruleOptions, createdBefore |-> created]

InitServer ==
  /\ MatchIdle
  /\ FnIdle
  /\ ScoreIdle
  /\ RunIdle
  /\ \E n \in DOMAIN Filled :
       /\ storedAudits = Filled[n].storedAudits
       /\ ruleOptions = Filled[n].ruleOptions
       /\ created = Filled[n].created
       /\ storeLog = Filled[n].storeLog
  /\ pending = {}
  /\ received = 0
  /\ lastCall = NoCall

AuditHtml ==
  /\ received < MaxCalls
  /\ \E html \in HtmlSamples, component_mode \in ModeSamples,
        name \in NameSamples :
       Return(Call("audit_html", html, component_mode, name, ""),
              auditHtml(Current, html, component_mode, name))
  /\ received' = received + 1
  /\ UNCHANGED pending
  /\ UNCHANGED <<matchVars, fnVars, scoreVars, runVars>>

DiffHtml ==
  /\ received < MaxCalls
  /\ \E html \in HtmlSamples, before \in BeforeSamples,
        component_mode \in ModeSamples :
       Return(Call("diff_html", html, component_mode, None, before),
              diffHtml(Current, html, before, component_mode))
  /\ received' = received + 1
  /\ UNCHANGED pending
  /\ UNCHANGED <<matchVars, fnVars, scoreVars, runVars>>

\* audit_url up to await fetch(url) (audit-url.ts 27-30); what the URL
\* serves is chosen when the fetch ends
CallAuditUrl ==
  /\ received < MaxCalls
  /\ \E component_mode \in ModeSamples, name \in NameSamples :
       pending' = pending \cup {Call("audit_url", "", component_mode, name, "")}
  /\ received' = received + 1
  /\ UNCHANGED <<storedAudits, ruleOptions, created, storeLog, lastCall>>
  /\ UNCHANGED <<matchVars, fnVars, scoreVars, runVars>>

\* fetch rejects, the status is not ok, or the content type is not text/html
\* (audit-url.ts 31-63)
FetchFails ==
  /\ \E c \in pending :
       /\ c.tool = "audit_url"
       /\ pending' = pending \ {c}
       /\ Return(c, errorReturn(Current))
  /\ UNCHANGED received
  /\ UNCHANGED <<matchVars, fnVars, scoreVars, runVars>>

\* the response is HTML (audit-url.ts 65-79)
FetchReturns ==
  /\ \E c \in pending, html \in HtmlSamples :
       /\ c.tool = "audit_url"
       /\ pending' = pending \ {c}
       /\ Return([c EXCEPT !.html = html],
                 auditUrl(Current, html, c.component_mode, c.name))
  /\ UNCHANGED received
  /\ UNCHANGED <<matchVars, fnVars, scoreVars, runVars>>

\* audit_file up to await readFile (audit-file.ts 27-31)
CallAuditFile ==
  /\ received < MaxCalls
  /\ \E component_mode \in ModeSamples, name \in NameSamples :
       pending' = pending \cup {Call("audit_file", "", component_mode, name, "")}
  /\ received' = received + 1
  /\ UNCHANGED <<storedAudits, ruleOptions, created, storeLog, lastCall>>
  /\ UNCHANGED <<matchVars, fnVars, scoreVars, runVars>>

\* readFile rejects (audit-file.ts 32-39)
ReadFileFails ==
  /\ \E c \in pending :
       /\ c.tool = "audit_file"
       /\ pending' = pending \ {c}
       /\ Return(c, errorReturn(Current))
  /\ UNCHANGED received
  /\ UNCHANGED <<matchVars, fnVars, scoreVars, runVars>>

\* the file is read (audit-file.ts 41-44)
ReadFileReturns ==
  /\ \E c \in pending, html \in HtmlSamples :
       /\ c.tool = "audit_file"
       /\ pending' = pending \ {c}
       /\ Return([c EXCEPT !.html = html],
                 auditFile(Current, html, c.component_mode, c.name))
  /\ UNCHANGED received
  /\ UNCHANGED <<matchVars, fnVars, scoreVars, runVars>>

\* clearStoredAudits, which the tests call between cases; no tool calls it
ClearStoredAudits ==
  /\ Return([Call("clearStoredAudits", "", None, None, "") EXCEPT !.id = 0],
            Outcome(clearStoredAudits(Current), FALSE, FALSE, NoOptions, FALSE,
                    NoResult, None))
  /\ UNCHANGED <<pending, received>>
  /\ UNCHANGED <<matchVars, fnVars, scoreVars, runVars>>

NextServer ==
  \/ AuditHtml
  \/ DiffHtml
  \/ CallAuditUrl
  \/ FetchFails
  \/ FetchReturns
  \/ CallAuditFile
  \/ ReadFileFails
  \/ ReadFileReturns
  \/ ClearStoredAudits

SpecServer == InitServer /\ [][NextServer]_vars

\* the names stored
names(store) == {store[i].name : i \in 1..Len(store)}

\* the last call ran audit with a name that is stored under
StoredUnder(name) ==
  /\ lastCall.audited
  /\ named(lastCall.options)
  /\ lastCall.options.name[1] = name

\* the last call ran audit without a name or with the empty name
AuditedUnnamed == lastCall.audited /\ ~named(lastCall.options)

\* the place in the history of the latest storeAudit call for name, 0 for none
LatestStore(log, name) ==
  IF \E i \in 1..Len(log) : log[i].name = name
  THEN CHOOSE i \in 1..Len(log) :
         /\ log[i].name = name
         /\ \A j \in (i + 1)..Len(log) : log[j].name # name
  ELSE 0

\* the last call stored under a name that was absent from a full store
EvictingStore ==
  /\ lastCall.audited
  /\ named(lastCall.options)
  /\ Len(lastCall.storedBefore) >= MAX_STORED_AUDITS
  /\ ~has(lastCall.storedBefore, lastCall.options.name[1])

\* C22: a named audit leaves its result under its name; every stored name
\* holds the result of the most recent audit stored under it; a name leaves
\* the store only when it is evicted or the store is cleared; and an audit
\* without a name, or with the empty name, leaves the store as it was
C22_StoredUntilEvicted ==
  /\ (lastCall.audited /\ named(lastCall.options)) =>
       getStoredAudit(storedAudits, lastCall.options.name[1])
         = Some(lastCall.result)
  /\ \A name \in names(lastCall.storedBefore) \cup names(storedAudits) :
       /\ has(storedAudits, name) =>
            /\ LatestStore(storeLog, name) >= 1
            /\ getStoredAudit(storedAudits, name)
                 = Some(storeLog[LatestStore(storeLog, name)].result)
       /\ (has(lastCall.storedBefore, name) /\ ~has(storedAudits, name)) =>
            lastCall.tool = "clearStoredAudits" \/ EvictingStore
  /\ AuditedUnnamed => storedAudits = lastCall.storedBefore

\* a second audit under a stored name: the store answers with the new result
C22_Witness ==
  /\ StoredUnder("a")
  /\ has(lastCall.storedBefore, "a")
  /\ getStoredAudit(lastCall.storedBefore, "a") # Some(lastCall.result)
  /\ getStoredAudit(storedAudits, "a") = Some(lastCall.result)

\* an audit with the empty name over a store that holds audits
C22_WitnessEmptyName ==
  /\ lastCall.audited
  /\ lastCall.options.name = Some("")
  /\ storedAudits # <<>>
  /\ storedAudits = lastCall.storedBefore

\* the name stored, among those of store, whose latest storeAudit call is
\* the earliest in the history
LeastRecentlyStored(store, log) ==
  CHOOSE name \in names(store) :
    \A other \in names(store) :
      LatestStore(log, name) <= LatestStore(log, other)

\* C27: storing under a new name while MAX_STORED_AUDITS audits are stored
\* removes exactly one entry, that of the name whose latest store happened
\* longest ago, and storing under a stored name replaces its result and
\* removes nothing
C27_EvictsLeastRecentlyStored ==
  /\ EvictingStore =>
       names(lastCall.storedBefore) \ names(storedAudits)
         = {LeastRecentlyStored(lastCall.storedBefore, lastCall.logBefore)}
  /\ \A name \in names(lastCall.storedBefore) :
       StoredUnder(name) =>
         /\ names(storedAudits) = names(lastCall.storedBefore)
         /\ getStoredAudit(storedAudits, name) = Some(lastCall.result)

\* what holds of every store: at capacity one entry goes, the one that
\* entered the Map first, and a stored name is replaced where it stands
C27_EvictsFirstInserted ==
  /\ EvictingStore =>
       /\ names(lastCall.storedBefore) \ names(storedAudits)
            = {keys(lastCall.storedBefore)[1]}
       /\ Len(storedAudits) = MAX_STORED_AUDITS
  /\ \A name \in names(lastCall.storedBefore) :
       StoredUnder(name) =>
         /\ keys(storedAudits) = keys(lastCall.storedBefore)
         /\ getStoredAudit(storedAudits, name) = Some(lastCall.result)

\* the first name of a full store is stored again, the next call stores
\* under a new name, and the name just refreshed is the one to go
C27_WitnessRefreshedEvicted ==
  /\ EvictingStore
  /\ LatestStore(lastCall.logBefore, keys(lastCall.storedBefore)[1])
       = Len(lastCall.logBefore)
  /\ ~has(storedAudits, keys(lastCall.storedBefore)[1])

\* C28: the store never holds more than MAX_STORED_AUDITS entries, whatever
\* named audits, unnamed audits, diffs and clears have run
C28_AtMostTen == Len(storedAudits) <= MAX_STORED_AUDITS

\* a store under a new name at capacity: still MAX_STORED_AUDITS entries
C28_Witness ==
  /\ EvictingStore
  /\ Len(lastCall.storedBefore) = MAX_STORED_AUDITS
  /\ Len(storedAudits) = MAX_STORED_AUDITS
  /\ has(storedAudits, lastCall.options.name[1])

\* C29: diff_html for a name without a stored audit returns an error and
\* runs no audit, and no diff_html call, failed or not, changes the store
C29_DiffLeavesStore ==
  lastCall.tool = "diff_html" =>
    /\ storedAudits = lastCall.storedBefore
    /\ getStoredAudit(lastCall.storedBefore, lastCall.before) = None =>
         /\ lastCall.isError
         /\ created = lastCall.createdBefore
         /\ ruleOptions = lastCall.configuredBefore

\* a diff against a name that is not stored, while other audits are
C29_Witness ==
  /\ lastCall.tool = "diff_html"
  /\ lastCall.before = "k"
  /\ lastCall.storedBefore # <<>>
  /\ ~has(lastCall.storedBefore, "k")
  /\ lastCall.isError

\* a diff against a stored audit in a full store: the new HTML is audited
\* and the store is as before
C29_WitnessDiffed ==
  /\ lastCall.tool = "diff_html"
  /\ ~lastCall.isError
  /\ created = lastCall.createdBefore + 1
  /\ lastCall.beforeResult # None
  /\ Len(storedAudits) = MAX_STORED_AUDITS

C30_WitnessExplicit ==
  /\ lastCall.audited
  /\ lastCall.options.componentMode = Some(FALSE)
  /\ lastCall.isFragment
  /\ lastCall.configuredBefore = Some(TRUE)
  /\ ~lastCall.result.componentMode

=============================================================================
